---- MODULE Spec2Model ----
(***************************************************************************)
(* q2-vsearch: cluster-membership resolution and abundance-table collapse. *)
(* Model of src/q2_vsearch/_cluster_features.py.                           *)
(*                                                                         *)
(* Text is modelled as sequences of one-character strings, so that the     *)
(* id parsing of _uc_to_sqlite (split on ';' and on ';size=') and the      *)
(* '%s;size=%d' formatting of _fasta_with_sizes are computed, not assumed. *)
(***************************************************************************)
EXTENDS Integers, Sequences, FiniteSets, TLC

VARIABLES
    op,             \* which operation this run executes
    pc,             \* position inside the operation
    table0,         \* the caller's table as it was when the operation began
    table,          \* the caller's biom.Table: [row id -> [sample -> count]]
    sequences,      \* the input FASTA, in file order: Seq of [id, seq]
    refs,           \* reference_sequences FASTA (closed-reference)
    sized,          \* the fasta_with_sizes temporary file
    uc,             \* the out_uc temporary file: Seq of lines (Seq of fields)
    notmatched,     \* the --notmatched temporary file (sized ids)
    unmatched_seqs, \* the unmatched_seqs output FASTA
    conn,           \* feature_cluster_map: [feature id -> [cluster_id, count]]
    out_table,      \* the table returned
    out_seqs,       \* the representative sequences written / returned
    error,          \* the exception raised, NoError while none
    cmds,           \* the run_command calls made so far, in order
    assign,         \* what the external tool decided for each query id
    open,           \* the frame of cluster_features_open_reference: its
                    \* arguments and locals while an action it called runs
    temps,          \* the NamedTemporaryFile objects that exist on disk
    chimera,        \* files of the chimera operations: temp_chimeras,
                    \* chimeras, nonchimeras
    parse,          \* what _parse_uc returns: observation_ids, sample_ids,
                    \* data
    stats           \* the frame of _fastq_stats: its jobs, the processes
                    \* spawned, the positions of its workers

vars == <<op, pc, table0, table, sequences, refs, sized, uc, notmatched,
          unmatched_seqs, conn, out_table, out_seqs, error, cmds, assign,
          open, temps, chimera, parse, stats>>

-----------------------------------------------------------------------------
(* Bounds *)

\* largest cell value of an input table of the pure-function specifications
MaxCount == 1
\* the non-zero cell value of the input tables of the pipelines: their
\* cells are 0 or MaxCell
MaxCell == 1

-----------------------------------------------------------------------------
(* Values *)

\* an exception: its class, what it reports, and the feature ids it names
Err(kind, what, ids) == [kind |-> kind, what |-> what, ids |-> ids]
NoError == Err("none", "", {})

\* isinstance(e, ValueError): UnicodeDecodeError is a subclass of ValueError
IsValueError(e) == e.kind \in {"ValueError", "UnicodeDecodeError"}

Samples == {"s1", "s2"}

Digits == <<"0", "1", "2", "3", "4", "5", "6", "7", "8", "9">>

\* the ASCII characters in the order of their code points, the character
\* with code point k at place k + 1. U+0000 and U+0060 stand for the two
\* characters a string of this notation cannot hold, NUL and the grave accent
Ascii ==
    << "U+0000", "", "", "", "", "", "", "",
       "", "\t", "\n", "", "\f", "\r", "", "",
       "", "", "", "", "", "", "", "",
       "", "", "", "", "", "", "", "",
       " ", "!", "\"", "#", "$", "%", "&", "'",
       "(", ")", "*", "+", ",", "-", ".", "/",
       "0", "1", "2", "3", "4", "5", "6", "7",
       "8", "9", ":", ";", "<", "=", ">", "?",
       "@", "A", "B", "C", "D", "E", "F", "G",
       "H", "I", "J", "K", "L", "M", "N", "O",
       "P", "Q", "R", "S", "T", "U", "V", "W",
       "X", "Y", "Z", "[", "\\", "]", "^", "_",
       "U+0060", "a", "b", "c", "d", "e", "f", "g",
       "h", "i", "j", "k", "l", "m", "n", "o",
       "p", "q", "r", "s", "t", "u", "v", "w",
       "x", "y", "z", "{", "|", "}", "~", "" >>

\* a byte that is not valid UTF-8
BadByte == "xFF"

\* ord(c) for the characters of the model: ASCII and the invalid byte 255
CodePoint ==
    [c \in {Ascii[i] : i \in DOMAIN Ascii} \cup {BadByte} |->
        IF c = BadByte THEN 255
        ELSE (CHOOSE i \in DOMAIN Ascii : Ascii[i] = c) - 1]

\* the code point of a character: SQLite's BINARY collation and Python's
\* str comparison both order text by it
Ord(c) == CodePoint[c]

\* x < y for text, byte-wise lexicographic
RECURSIVE TextLess(_, _)
TextLess(x, y) ==
    IF y = <<>> THEN FALSE
    ELSE IF x = <<>> THEN TRUE
    ELSE IF Ord(Head(x)) # Ord(Head(y)) THEN Ord(Head(x)) < Ord(Head(y))
    ELSE TextLess(Tail(x), Tail(y))

StartsWith(s, p) ==
    /\ Len(s) >= Len(p)
    /\ SubSeq(s, 1, Len(p)) = p

\* Python's str.split(sep): the pieces between the non-overlapping
\* occurrences of sep, scanning from the left
RECURSIVE SplitFrom(_, _, _)
SplitFrom(s, sep, cur) ==
    IF s = <<>> THEN <<cur>>
    ELSE IF StartsWith(s, sep)
         THEN <<cur>> \o SplitFrom(SubSeq(s, Len(sep) + 1, Len(s)), sep, <<>>)
         ELSE SplitFrom(Tail(s), sep, Append(cur, Head(s)))

Split(s, sep) == SplitFrom(s, sep, <<>>)

\* sep.join(pieces) for at least one piece
RECURSIVE Join(_, _)
Join(pieces, sep) ==
    IF Len(pieces) = 1 THEN pieces[1]
    ELSE pieces[1] \o sep \o Join(Tail(pieces), sep)

\* the code points of the white space of bytes: bytes.strip() removes them,
\* and SQLite skips them before and after a numeral
ByteSpace == (9..13) \cup {32}

\* the code points of the ASCII white space of str: str.strip() removes
\* them and str.split() splits at them
StrSpace == (9..13) \cup (28..32)

IsSpace(c) == Ord(c) \in ByteSpace

RECURSIVE LStripOf(_, _)
LStripOf(s, space) ==
    IF s # <<>> /\ Ord(Head(s)) \in space THEN LStripOf(Tail(s), space) ELSE s

RECURSIVE RStripOf(_, _)
RStripOf(s, space) ==
    IF s # <<>> /\ Ord(s[Len(s)]) \in space
    THEN RStripOf(SubSeq(s, 1, Len(s) - 1), space)
    ELSE s

\* the fields of a line without the white space at its start: a tab is
\* white space, so the fields that hold nothing else go with it
RECURSIVE LStripFields(_, _)
LStripFields(line, space) ==
    IF Len(line) > 1 /\ LStripOf(line[1], space) = <<>>
    THEN LStripFields(Tail(line), space)
    ELSE <<LStripOf(line[1], space)>> \o Tail(line)

\* the fields of a line without the white space at its end
RECURSIVE RStripFields(_, _)
RStripFields(line, space) ==
    IF Len(line) > 1 /\ RStripOf(line[Len(line)], space) = <<>>
    THEN RStripFields(SubSeq(line, 1, Len(line) - 1), space)
    ELSE SubSeq(line, 1, Len(line) - 1)
             \o <<RStripOf(line[Len(line)], space)>>

\* line.strip() followed by line.split('\t'), for a line given as its
\* tab-separated fields
StripLine(line, space) == RStripFields(LStripFields(line, space), space)

\* '%d' % n for n >= 0
RECURSIVE Decimal(_)
Decimal(n) ==
    IF n < 10 THEN <<Digits[n + 1]>>
    ELSE Decimal(n \div 10) \o <<Digits[(n % 10) + 1]>>

IsDigit(c) == \E i \in 1..10 : Digits[i] = c

DigitVal(c) == Ord(c) - Ord("0")

RECURSIVE DecimalValue(_, _)
DecimalValue(s, acc) ==
    IF s = <<>> THEN acc
    ELSE DecimalValue(Tail(s), 10 * acc + DigitVal(Head(s)))

SizeSep == <<";", "s", "i", "z", "e", "=">>
Semi == <<";">>

\* '%s;size=%d' % (feature_id, feature_size)
SizedId(feature_id, feature_size) ==
    feature_id \o SizeSep \o Decimal(feature_size)

RECURSIVE SumOver(_, _)
\* the sum of f[x] over x in S
SumOver(f, S) ==
    IF S = {} THEN 0
    ELSE LET x == CHOOSE y \in S : TRUE
         IN f[x] + SumOver(f, S \ {x})


-----------------------------------------------------------------------------
(* Input universes *)

FeatureIds == { <<"a">>, <<"b">>, <<"a", ";", "b">> }
\* cluster ids of the membership mappings drawn for the pure-function runs
ClusterIds == { <<"r">>, <<"a">> }

\* the sequence string that goes with a feature id in the input FASTA
SeqOf(id) ==
    CASE id = <<"a">> -> "AAAA"
      [] id = <<"b">> -> "CCCC"
      [] id = <<"a", ";", "b">> -> "GGGG"
      [] OTHER -> "TTTT"

\* biom tables over a non-empty set of row ids drawn from ids, with cells
\* drawn from values
TablesOver(ids, values) ==
    UNION { [R -> [Samples -> values]] : R \in (SUBSET ids) \ {{}} }

EmptyTable == [r \in {} |-> [s \in Samples |-> 0]]
EmptyConn == <<>>
NoCount == <<"NULL">>

\* no call of cluster_features_open_reference is in progress
NoFrame ==
    [stage |-> "none", sequences |-> <<>>, table |-> EmptyTable,
     reference_sequences |-> <<>>, skipped_closed_ref |-> TRUE,
     closed_ref_table |-> EmptyTable, rep_seqs |-> <<>>,
     unmatched_seqs |-> <<>>, de_novo_table |-> EmptyTable,
     de_novo_seqs |-> <<>>, outputs |-> <<>>, calls |-> <<>>]

\* _parse_uc has not run
NoParse == [observation_ids |-> <<>>, sample_ids |-> <<>>, data |-> <<>>]

\* _fastq_stats has not run
NoStats == [stage |-> "none"]

\* the files of a chimera operation before anything is written
NoChimera ==
    [temp_chimeras |-> <<>>, chimeras |-> <<>>, nonchimeras |-> <<>>,
     uchime_stats |-> <<>>]

\* the orderings of a finite set: sequences listing each element once
Arrangements(S) ==
    {p \in [1..Cardinality(S) -> S] : \A i, j \in DOMAIN p : p[i] = p[j] => i = j}

\* FASTA files holding the features of some subset of ids, in any file order
FastaFiles(ids) ==
    UNION { {[i \in DOMAIN p |-> [id |-> p[i], seq |-> SeqOf(p[i])]]
               : p \in Arrangements(D)} : D \in SUBSET ids }

\* FASTA files that hold the record of an id twice
RepeatingFastaFiles(ids) ==
    {<<f[1]>> \o f : f \in FastaFiles(ids) \ {<<>>}}

\* feature_cluster_map tables, in rowid (insertion) order, in which every row
\* of a subset of ids is one of the rows opts[id]; feature_id is the key
ConnsOver(ids, opts) ==
    UNION { UNION { {[i \in DOMAIN p |->
                        [feature_id |-> p[i],
                         cluster_id |-> m[p[i]].cluster_id,
                         count |-> m[p[i]].count]]
                       : m \in {g \in [D -> UNION {opts[f] : f \in D}]
                                  : \A f \in D : g[f] \in opts[f]}}
                    : p \in Arrangements(D)} : D \in SUBSET ids }

-----------------------------------------------------------------------------
(* biom.Table operations used by the code *)

\* table.ids(axis='observation')
RowIds(t) == DOMAIN t

\* table.ids(axis='sample'); a table without rows is modelled without samples
SampleIds(t) ==
    IF DOMAIN t = {} THEN {} ELSE DOMAIN t[CHOOSE r \in DOMAIN t : TRUE]

\* table.sum(axis='observation')[id]
RowSum(t, id) == SumOver(t[id], SampleIds(t))

\* table.collapse(f, norm=True, ...): the mean of the members (not the code)
CollapseNorm(t, f) ==
    [c \in {f[r] : r \in DOMAIN t} |->
        [s \in SampleIds(t) |->
            LET members == {r \in DOMAIN t : f[r] = c}
            IN SumOver([r \in members |-> t[r][s]], members)
                   \div Cardinality(members)]]

\* table.collapse(f, norm=False, min_group_size=2, ...): groups of one
\* member are dropped (not the code)
CollapseMinGroupTwo(t, f) ==
    [c \in {f[r] : r \in {x \in DOMAIN t :
                            \E q \in DOMAIN t : q # x /\ f[q] = f[x]}} |->
        [s \in SampleIds(t) |->
            LET members == {r \in DOMAIN t : f[r] = c}
            IN SumOver([r \in members |-> t[r][s]], members)]]

\* table.collapse(f, norm=False, min_group_size=1, axis='observation'):
\* rows are partitioned by f and each partition is reduced by addition
Collapse(t, f) ==
    [c \in {f[r] : r \in DOMAIN t} |->
        [s \in SampleIds(t) |->
            LET members == {r \in DOMAIN t : f[r] = c}
            IN SumOver([r \in members |-> t[r][s]], members)]]

\* table.filter(ids_to_keep=ids, invert=True, axis='observation')
FilterOut(t, ids) == [r \in (DOMAIN t) \ ids |-> t[r]]

-----------------------------------------------------------------------------
(* _collapse_f_from_sqlite *)

\* the feature ids of feature_cluster_map
ConnIds(c) == {c[i].feature_id : i \in DOMAIN c}

\* id_to_centroid = dict(SELECT feature_id, cluster_id FROM feature_cluster_map)
IdToCentroid(c) ==
    [f \in ConnIds(c) |-> (CHOOSE r \in {c[i] : i \in DOMAIN c} : r.feature_id = f).cluster_id]

\* a collapse whose collapse_f hands back the id of a row the mapping lacks
\* (not the code: dict.get(id_, id_) in place of the subscript)
CollapseOutcomePassingThrough(t, c) ==
    IF Len(c) = 0
    THEN [error |-> Err("ValueError", "no sequence matches", {}),
          table |-> EmptyTable]
    ELSE [error |-> NoError,
          table |-> Collapse(t, [f \in DOMAIN t |->
                                    IF f \in ConnIds(c)
                                    THEN IdToCentroid(c)[f] ELSE f])]

\* the outcome of _collapse_f_from_sqlite(conn) followed by
\* table.collapse(collapse_f, ...): ValueError on an empty mapping, KeyError
\* from collapse_f on a row the mapping lacks, else the collapsed table
CollapseOutcome(t, c) ==
    IF Len(c) = 0
    THEN [error |-> Err("ValueError", "no sequence matches", {}),
          table |-> EmptyTable]
    ELSE IF ~(DOMAIN t \subseteq ConnIds(c))
         THEN [error |-> Err("KeyError", "collapse_f", {}), table |-> EmptyTable]
         ELSE [error |-> NoError, table |-> Collapse(t, IdToCentroid(c))]

-----------------------------------------------------------------------------
(* _uc_to_sqlite *)

\* fields[8], the query id, and fields[9], the target id
QueryCol == 8
TargetCol == 9

\* a line of the uc file is the sequence of its tab-separated fields
UcLine(marker, query, target) ==
    <<marker, <<"*">>, <<"*">>, <<"*">>, <<"*">>, <<"*">>, <<"*">>, <<"*">>,
      query, target>>

BlankLine == << <<>> >>

\* line = line.strip(); len(line) == 0 or line.startswith(b'#')
IsSkipped(raw) ==
    \E line \in {StripLine(raw, ByteSpace)} :
        line = BlankLine \/ StartsWith(line[1], <<"#">>)

\* bytes.decode('utf-8') raises UnicodeDecodeError
Undecodable(field) == \E i \in DOMAIN field : field[i] = BadByte

\* INSERT OR REPLACE: a second row for a feature id takes the place of the
\* first (not the code)
InsertOrReplace(c, row) ==
    LET Other(r) == r.feature_id # row.feature_id
    IN [conn |-> Append(SelectSeq(c, Other), row), error |-> NoError]

\* c.execute(insert_stmt, row): the PRIMARY KEY on feature_id refuses a
\* second row for a feature id
Insert(c, row) ==
    IF row.feature_id \in ConnIds(c)
    THEN [conn |-> c, error |-> Err("IntegrityError", "feature_id", {row.feature_id})]
    ELSE [conn |-> Append(c, row), error |-> NoError]

\* the body of the loop of _uc_to_sqlite for one line, stripped and split
\* at its tabs
UcFields(c, line) ==
    IF line[1] = <<"S">>
    THEN IF Len(line) < QueryCol + 1
         THEN [conn |-> c, error |-> Err("IndexError", "fields", {})]
         ELSE IF Undecodable(line[QueryCol + 1])
         THEN [conn |-> c, error |-> Err("UnicodeDecodeError", "query", {})]
         ELSE LET sequence_id == Split(line[QueryCol + 1], Semi)[1]
              IN Insert(c, [feature_id |-> sequence_id,
                            cluster_id |-> sequence_id,
                            count |-> NoCount])
    ELSE IF line[1] = <<"H">>
    THEN IF Len(line) < TargetCol + 1
         THEN [conn |-> c, error |-> Err("IndexError", "fields", {})]
         ELSE IF Undecodable(line[TargetCol + 1])
         THEN [conn |-> c, error |-> Err("UnicodeDecodeError", "target", {})]
         ELSE IF Undecodable(line[QueryCol + 1])
         THEN [conn |-> c, error |-> Err("UnicodeDecodeError", "query", {})]
         ELSE LET centroid_id == Split(line[TargetCol + 1], Semi)[1]
                  pieces == Split(line[QueryCol + 1], SizeSep)
              IN IF Len(pieces) < 2
                 THEN [conn |-> c, error |-> Err("IndexError", "size", {})]
                 ELSE Insert(c, [feature_id |-> pieces[1],
                                 cluster_id |-> centroid_id,
                                 count |-> pieces[2]])
    ELSE [conn |-> c, error |-> NoError]

\* the body of the loop of _uc_to_sqlite for one line of the file
UcRecord(c, raw) ==
    IF IsSkipped(raw) THEN [conn |-> c, error |-> NoError]
    ELSE CHOOSE r \in {UcFields(c, line) : line \in {StripLine(raw, ByteSpace)}} :
             TRUE

\* _uc_to_sqlite(uc): the lines in file order, stopping at the first error
RECURSIVE UcFrom(_, _, _)
UcFrom(lines, i, c) ==
    IF i > Len(lines) THEN [conn |-> c, error |-> NoError]
    ELSE LET r == UcRecord(c, lines[i])
         IN IF r.error # NoError THEN r ELSE UcFrom(lines, i + 1, r.conn)

UcToSqlite(lines) == UcFrom(lines, 1, EmptyConn)

-----------------------------------------------------------------------------
(* Pure-function run: the collapse step on a drawn table and mapping *)

Idle ==
    /\ sequences = <<>> /\ refs = <<>> /\ sized = <<>> /\ uc = <<>>
    /\ notmatched = <<>> /\ unmatched_seqs = <<>> /\ out_seqs = <<>>
    /\ cmds = <<>> /\ assign = <<>> /\ open = NoFrame
    /\ temps = {} /\ chimera = NoChimera
    /\ parse = NoParse /\ stats = NoStats

CollapseRows(f) == [cluster_id : ClusterIds, count : {NoCount}]
CollapseConns == ConnsOver(FeatureIds, [f \in FeatureIds |-> CollapseRows(f)])

InitCollapse ==
    /\ op = "collapse"
    /\ pc = "start"
    /\ table \in TablesOver(FeatureIds, 0..MaxCount)
    /\ table0 = table
    /\ conn \in CollapseConns
    /\ out_table = EmptyTable
    /\ error = NoError
    /\ Idle

CollapseStep ==
    /\ op = "collapse"
    /\ pc = "start"
    /\ LET r == CollapseOutcome(table, conn)
       IN /\ error' = r.error
          /\ out_table' = r.table
    /\ pc' = "done"
    /\ UNCHANGED <<op, table0, table, sequences, refs, sized, uc, notmatched,
                   unmatched_seqs, conn, out_seqs, cmds, assign,
                   open, temps, chimera, parse, stats>>

NextCollapse == CollapseStep

SpecCollapse == InitCollapse /\ [][NextCollapse]_vars

-----------------------------------------------------------------------------
(* Totals used to state the claims *)

ColumnTotal(t, s) == SumOver([r \in DOMAIN t |-> t[r][s]], DOMAIN t)
GrandTotal(t) == SumOver([s \in Samples |-> ColumnTotal(t, s)], Samples)

CollapseDone == op = "collapse" /\ pc = "done" /\ error = NoError

\* C1: the collapsed table has as rows exactly the distinct cluster ids of
\* the input rows, the input's samples, and in each cell the plain sum of the
\* member rows' counts; a single-member cluster keeps its member's counts.
C1_CollapseIsPlainSum ==
    CollapseDone =>
        /\ DOMAIN out_table = {IdToCentroid(conn)[f] : f \in DOMAIN table}
        /\ \A c \in DOMAIN out_table :
              /\ DOMAIN out_table[c] = Samples
              /\ \A s \in Samples :
                    LET members == {f \in DOMAIN table : IdToCentroid(conn)[f] = c}
                    IN /\ out_table[c][s] =
                             SumOver([f \in members |-> table[f][s]], members)
                       /\ \A f \in members :
                             members = {f} => out_table[c][s] = table[f][s]

\* a cluster of two members with non-zero counts in one sample was collapsed
C1_Witness ==
    /\ CollapseDone
    /\ \E f, g \in DOMAIN table, s \in Samples :
          /\ f # g
          /\ IdToCentroid(conn)[f] = IdToCentroid(conn)[g]
          /\ table[f][s] > 0 /\ table[g][s] > 0
          /\ out_table[IdToCentroid(conn)[f]][s] >= 2

\* C2: collapse conserves the grand total and every sample's column total.
C2_CollapseConserves ==
    CollapseDone =>
        /\ GrandTotal(out_table) = GrandTotal(table)
        /\ \A s \in Samples : ColumnTotal(out_table, s) = ColumnTotal(table, s)

\* rows were merged (fewer rows out than in) and the total is non-zero
C2_Witness ==
    /\ CollapseDone
    /\ Cardinality(DOMAIN out_table) < Cardinality(DOMAIN table)
    /\ GrandTotal(table) >= 3
    /\ GrandTotal(out_table) = GrandTotal(table)

-----------------------------------------------------------------------------
(* _fasta_from_sqlite *)

\* F at the value of x, and at the values of x and y: the arguments are
\* evaluated once, before F is applied
Once(F(_), x) == CHOOSE r \in {F(v) : v \in {x}} : TRUE

Once2(F(_, _), x, y) == CHOOSE r \in {F(v, w) : v \in {x}, w \in {y}} : TRUE

(* The count column of feature_cluster_map has INTEGER affinity: a text
   bound to it is read by SQLite's sqlite3AtoF and, if it is a numeral,
   stored as an integer or a real (applyNumericAffinity).  The definitions
   below follow those routines of SQLite 3.40 step by step, with the
   arithmetic of the C types they use: 64-bit integers, long double (a
   64-bit significand) and double (53 bits, subnormals, infinity).

   A whole number is the sequence of its digits in base 2^15, the least
   significant first; <<>> is zero. *)
LimbBits == 15
Base == 32768

Zeros(k) == SubSeq([i \in 1..k |-> 0], 1, k)

\* a without its leading (most significant) zero digits
NatTrim(a) ==
    SubSeq(a, 1, CHOOSE n \in 0..Len(a) :
                     /\ n = 0 \/ a[n] # 0
                     /\ \A j \in (n + 1)..Len(a) : a[j] = 0)

\* a < b
NatLess(a, b) ==
    \/ Len(a) < Len(b)
    \/ /\ Len(a) = Len(b)
       /\ \E i \in DOMAIN a :
             a[i] < b[i] /\ \A j \in (i + 1)..Len(a) : a[j] = b[j]

\* a * k + c for k, c below the base
RECURSIVE MulAddFrom(_, _, _)
MulAddFrom(a, k, c) ==
    IF a = <<>> THEN IF c = 0 THEN <<>> ELSE <<c>>
    ELSE <<(a[1] * k + c) % Base>>
             \o MulAddFrom(Tail(a), k, (a[1] * k + c) \div Base)

MulAdd(a, k, c) == Once(NatTrim, MulAddFrom(a, k, c))

\* the digit i of a, zero beyond its digits
Limb(a, i) == IF i <= Len(a) THEN a[i] ELSE 0

\* a + b + c from the digit i on
RECURSIVE AddFrom(_, _, _, _)
AddFrom(a, b, i, c) ==
    IF i > Len(a) /\ i > Len(b) THEN IF c = 0 THEN <<>> ELSE <<c>>
    ELSE <<(Limb(a, i) + Limb(b, i) + c) % Base>>
             \o AddFrom(a, b, i + 1, (Limb(a, i) + Limb(b, i) + c) \div Base)

Add(a, b) == AddFrom(a, b, 1, 0)

\* a - b - c from the digit i on, for a >= b + c
RECURSIVE SubFrom(_, _, _, _)
SubFrom(a, b, i, c) ==
    IF i > Len(a) THEN <<>>
    ELSE <<(a[i] - Limb(b, i) - c + Base) % Base>>
             \o SubFrom(a, b, i + 1, IF a[i] - Limb(b, i) - c < 0 THEN 1 ELSE 0)

Sub(a, b) == Once(NatTrim, SubFrom(a, b, 1, 0))

\* a + b * 2^15
AddShifted(a, b) == Add(a, IF b = <<>> THEN b ELSE <<0>> \o b)

\* a * b
RECURSIVE Mul(_, _)
Mul(a, b) ==
    IF a = <<>> \/ b = <<>> THEN <<>>
    ELSE Once2(AddShifted, MulAdd(a, b[1], 0), Mul(a, Tail(b)))

\* the quotient and the remainder of a by k, for k below the base
RECURSIVE DivSmallFrom(_, _, _, _)
DivSmallFrom(a, k, i, r) ==
    IF i = 0 \/ r < 0 THEN <<>>
    ELSE DivSmallFrom(a, k, i - 1, (r * Base + a[i]) % k)
             \o <<(r * Base + a[i]) \div k>>

DivSmall(a, k) == Once(NatTrim, DivSmallFrom(a, k, Len(a), 0))

RECURSIVE ModSmallFrom(_, _, _, _)
ModSmallFrom(a, k, i, r) ==
    IF i = 0 \/ r < 0 THEN r
    ELSE ModSmallFrom(a, k, i - 1, (r * Base + a[i]) % k)

ModSmall(a, k) == ModSmallFrom(a, k, Len(a), 0)

\* a * 2^k and the whole part of a / 2^k
Shl(a, k) ==
    IF a = <<>> THEN a
    ELSE Zeros(k \div LimbBits) \o MulAdd(a, 2^(k % LimbBits), 0)

Shr(a, k) ==
    IF k \div LimbBits >= Len(a) THEN <<>>
    ELSE DivSmall(SubSeq(a, (k \div LimbBits) + 1, Len(a)), 2^(k % LimbBits))

\* the number of bits of a, its bit of weight 2^i, whether the bits below
\* 2^k are all zero, whether a is odd
BitLen(a) ==
    IF a = <<>> THEN 0
    ELSE LimbBits * (Len(a) - 1)
           + (CHOOSE n \in 1..LimbBits :
                 2^(n - 1) <= a[Len(a)] /\ a[Len(a)] < 2^n)

Bit(a, i) ==
    IF (i \div LimbBits) + 1 > Len(a) THEN 0
    ELSE (a[(i \div LimbBits) + 1] \div 2^(i % LimbBits)) % 2

LowBitsZero(a, k) ==
    \A n \in DOMAIN a :
        /\ n <= k \div LimbBits => a[n] = 0
        /\ n = (k \div LimbBits) + 1 => a[n] % 2^(k % LimbBits) = 0

IsOdd(a) == a # <<>> /\ a[1] % 2 = 1

\* the greatest k below the base with d * k <= r, for r < d * 2^15: its
\* bits from the one of weight 2^b down are added to q
RECURSIVE QuotLimb(_, _, _, _)
QuotLimb(r, d, q, b) ==
    IF b < 0 THEN q
    ELSE IF NatLess(r, MulAdd(d, q + 2^b, 0)) THEN QuotLimb(r, d, q, b - 1)
    ELSE QuotLimb(r, d, q + 2^b, b - 1)

\* long division of n by d # 0, from the most significant digit of n: the
\* digits i and below of n are still to come, r is the remainder and q the
\* quotient of the digits above
RECURSIVE DivModFrom(_, _, _, _, _)

\* the digit k of the quotient goes below q, and d * k off the remainder
DivModTake(n, d, i, r, q, k) ==
    DivModFrom(n, d, i - 1, IF k = 0 THEN r ELSE Sub(r, MulAdd(d, k, 0)),
               <<k>> \o q)

DivModStep(n, d, i, r, q) ==
    Once(LAMBDA k : DivModTake(n, d, i, r, q, k),
         QuotLimb(r, d, 0, LimbBits - 1))

DivModFrom(n, d, i, r, q) ==
    IF i = 0 THEN [q |-> NatTrim(q), r |-> r]
    ELSE DivModStep(n, d, i, NatTrim(<<n[i]>> \o r), q)

DivMod(n, d) == DivModFrom(n, d, Len(n), <<>>, <<>>)

\* the whole number written with the decimal digits ds
RECURSIVE FromDigits(_, _)
FromDigits(ds, acc) ==
    IF ds = <<>> THEN acc
    ELSE Once(LAMBDA x : FromDigits(Tail(ds), x),
              MulAdd(acc, 10, DigitVal(Head(ds))))

\* the value of a whole number that fits an integer of the model
RECURSIVE NatValue(_)
NatValue(a) == IF a = <<>> THEN 0 ELSE a[1] + Base * NatValue(Tail(a))

\* q + 1 if the bits cut off q are more than half a unit, or half a unit
\* and q is odd; else q
RoundTo(q, half, more) ==
    IF half /\ (more \/ IsOdd(q)) THEN Add(q, <<1>>) ELSE q

\* n / 2^sh rounded to the nearest whole number, a tie to the even one;
\* sticky says that the exact value is a little more than n
Round(n, sticky, sh) ==
    IF sh = 0 THEN n
    ELSE Once(LAMBDA q : RoundTo(q, Bit(n, sh - 1) = 1,
                                 sticky \/ ~LowBitsZero(n, sh - 1)),
              Shr(n, sh))

\* the bits of the significand of a long double and of a double, the
\* exponent of the least subnormal double and of the first power of two
\* that is no double
LongDoubleBits == 64
DoubleBits == 53
MinExp2 == 1074
MaxExp2 == 1024

Zero == [m |-> <<>>, e2 |-> 0, inf |-> FALSE]
Infinity == [m |-> <<>>, e2 |-> 0, inf |-> TRUE]

\* the bits to cut off a whole number of so many bits for a significand
\* of at most width bits
Excess(bits, width) == IF bits > width THEN bits - width ELSE 0

\* the long double m * 2^e2 nearest to n * 2^e
RoundLongDoubleBy(n, sticky, e, sh) ==
    [m |-> Round(n, sticky, sh), e2 |-> e + sh]

RoundLongDouble(n, sticky, e) ==
    RoundLongDoubleBy(n, sticky, e, Excess(BitLen(n), LongDoubleBits))

\* the double m * 2^e2: zero, or infinity from 2^1024
AsDouble(m, e2) ==
    IF m = <<>> THEN Zero
    ELSE IF BitLen(m) + e2 > MaxExp2 THEN Infinity
    ELSE [m |-> m, e2 |-> e2, inf |-> FALSE]

\* the bits a double cuts off a whole number of so many bits at exponent
\* e: those beyond 53, and those below 2^-1074
DoubleShift(bits, e) ==
    IF bits - DoubleBits >= 0 - MinExp2 - e
    THEN Excess(bits, DoubleBits)
    ELSE Excess(0 - MinExp2, e)

RoundDoubleBy(n, sticky, e, sh) ==
    Once(LAMBDA m : AsDouble(m, e + sh), Round(n, sticky, sh))

\* the double nearest to n * 2^e: a significand of 53 bits, fewer below
\* 2^-1022, infinity from 2^1024
RoundDouble(n, sticky, e) ==
    IF n = <<>> THEN Zero
    ELSE RoundDoubleBy(n, sticky, e, DoubleShift(BitLen(n), e))

\* (long double)s for a 64-bit integer s, x * y and s / x in long double
LongDouble(s) == [m |-> s, e2 |-> 0]

LongDoubleMul(x, y) ==
    Once(LAMBDA n : RoundLongDouble(n, FALSE, x.e2 + y.e2), Mul(x.m, y.m))

\* the quotient of n * 2^k by d, where k leaves it two bits more than the
\* width it is rounded to
QuotientShift(n, d, width) == Excess(width + 2 + BitLen(d), BitLen(n))

RoundedLongDouble(dm, e) == RoundLongDouble(dm.q, dm.r # <<>>, e)

LongDoubleDivBy(s, x, k) ==
    Once(LAMBDA dm : RoundedLongDouble(dm, 0 - k - x.e2),
         Once(LAMBDA n : DivMod(n, x.m), Shl(s, k)))

LongDoubleDiv(s, x) ==
    LongDoubleDivBy(s, x, QuotientShift(s, x.m, LongDoubleBits))

\* (double)x for a long double x
ToDouble(x) == RoundDouble(x.m, FALSE, x.e2)

\* x * y and x / y for doubles, y finite and not zero
DoubleMul(x, y) ==
    IF x.inf THEN Infinity
    ELSE Once(LAMBDA n : RoundDouble(n, FALSE, x.e2 + y.e2), Mul(x.m, y.m))

RoundedDouble(dm, e) == RoundDouble(dm.q, dm.r # <<>>, e)

DoubleDivBy(x, y, k) ==
    Once(LAMBDA dm : RoundedDouble(dm, x.e2 - y.e2 - k),
         Once(LAMBDA n : DivMod(n, y.m), Shl(x.m, k)))

DoubleDiv(x, y) ==
    IF x.m = <<>> THEN Zero
    ELSE DoubleDivBy(x, y, QuotientShift(x.m, y.m, DoubleBits))

\* sqlite3Pow10: 10^E in long double by squaring, every product rounded:
\* if( E & 1 ) r *= x; E >>= 1; if( E==0 ) break; x *= x
RECURSIVE Pow10From(_, _, _)

Pow10Next(E, x, r) ==
    IF E \div 2 = 0 THEN r
    ELSE Once(LAMBDA y : Pow10From(E \div 2, y, r), LongDoubleMul(x, x))

Pow10From(E, x, r) ==
    Once(LAMBDA p : Pow10Next(E, x, p),
         IF E % 2 = 1 THEN LongDoubleMul(r, x) ELSE r)

Pow10(E) == Pow10From(E, LongDouble(<<10>>), LongDouble(<<1>>))

\* LARGEST_INT64, 2^63 - 1
LargestInt64 ==
    FromDigits(<<"9", "2", "2", "3", "3", "7", "2", "0", "3", "6", "8", "5",
                 "4", "7", "7", "5", "8", "0", "7">>, <<>>)

\* the significand takes no digit more from (LARGEST_INT64 - 9) / 10
SignificandLimit == DivSmall(Sub(LargestInt64, <<9>>), 10)

\* the double 1.0e+308, 5010420900022432 * 2^971
Double1e308 ==
    [m |-> FromDigits(<<"5", "0", "1", "0", "4", "2", "0", "9", "0", "0",
                        "0", "2", "2", "4", "3", "2">>, <<>>),
     e2 |-> 971, inf |-> FALSE]

\* from this exponent on the scale is applied in two steps, from this one
\* on the result is zero or infinity, and an exponent is read up to this one
TwoStepExp == 308
HugeExp == 342
ExpCap == 10000

\* where the white space, and where the digits, that start at i end
SkipSpaces(t, i) ==
    CHOOSE j \in i..(Len(t) + 1) :
        /\ \A k \in i..(j - 1) : IsSpace(t[k])
        /\ j = Len(t) + 1 \/ ~IsSpace(t[j])

SkipDigits(t, i) ==
    CHOOSE j \in i..(Len(t) + 1) :
        /\ \A k \in i..(j - 1) : IsDigit(t[k])
        /\ j = Len(t) + 1 \/ ~IsDigit(t[j])

IsAt(t, i, cs) == i <= Len(t) /\ t[i] \in cs

SkipSign(t, i) == IF IsAt(t, i, {"-", "+"}) THEN i + 1 ELSE i

\* the text from its exponent on: e or E at i, a sign, digits to before j,
\* white space; end says that nothing follows
ScanExp(t, i, j) ==
    [exp |-> IsAt(t, i, {"e", "E"}),
     eneg |-> IsAt(t, i, {"e", "E"}) /\ IsAt(t, i + 1, {"-"}),
     edigits |-> SubSeq(t, SkipSign(t, i + 1), j - 1),
     end |-> SkipSpaces(t, j) > Len(t)]

\* the text from its point on: a point at i and digits to before j
ScanFrac(t, i, j) ==
    [point |-> IsAt(t, i, {"."}), frac |-> SubSeq(t, i + 1, j - 1)]
        @@ ScanExp(t, j, IF IsAt(t, j, {"e", "E"})
                         THEN SkipDigits(t, SkipSign(t, j + 1)) ELSE j)

\* the text from its sign on: a sign at i and digits from j to before k
ScanInt(t, i, j, k) ==
    [empty |-> i > Len(t), neg |-> IsAt(t, i, {"-"}),
     int |-> SubSeq(t, j, k - 1)]
        @@ ScanFrac(t, k, IF IsAt(t, k, {"."}) THEN SkipDigits(t, k + 1) ELSE k)

ScanSign(t, i) == ScanInt(t, i, SkipSign(t, i), SkipDigits(t, SkipSign(t, i)))

\* the parts of a text as sqlite3AtoF reads it: white space, a sign, the
\* digits before the point, a point and the digits after it, e or E with a
\* sign and digits, white space
ScanNumeral(t) == Once(LAMBDA i : ScanSign(t, i), SkipSpaces(t, 1))

\* where the zeros of ds that start at i end
ZerosEnd(ds, i) ==
    CHOOSE j \in i..(Len(ds) + 1) :
        /\ \A k \in i..(j - 1) : ds[k] = "0"
        /\ j = Len(ds) + 1 \/ ds[j] # "0"

\* the digits ds from the first that is not 0
SkipZeros(ds) == SubSeq(ds, ZerosEnd(ds, 1), Len(ds))

\* s = s*10 + digit for the digits of ds after the first used ones, while
\* s is below the limit; used counts the digits taken. While s is zero a
\* run of zeros is taken at once
RECURSIVE TakeDigits(_, _, _)
TakeDigits(ds, s, used) ==
    IF used = Len(ds) \/ ~NatLess(s, SignificandLimit)
    THEN [s |-> s, used |-> used]
    ELSE IF s = <<>> /\ ds[used + 1] = "0"
    THEN TakeDigits(ds, s, ZerosEnd(ds, used + 1) - 1)
    ELSE Once(LAMBDA x : TakeDigits(ds, x, used + 1),
              MulAdd(s, 10, DigitVal(ds[used + 1])))

\* e = e < 10000 ? e*10 + digit : 10000 for the digits of ds: the value of
\* up to five digits, the zeros at the start apart, and 10000 for more
ExpCapDigits == 5

TakeExp(ds) ==
    IF Len(SkipZeros(ds)) > ExpCapDigits THEN ExpCap
    ELSE DecimalValue(SkipZeros(ds), 0)

\* the significand s of a scanned text, the count nDigit of the digits it
\* took, and d: the digits before the point that s did not take raise the
\* decimal exponent, the digits after the point that it took lower it
TakenOf(n, int, frac) ==
    [s |-> frac.s, nDigit |-> int.used + frac.used,
     d |-> Len(n.int) - int.used - frac.used]

TakenFrom(n, int) ==
    Once(LAMBDA frac : TakenOf(n, int, frac), TakeDigits(n.frac, int.s, 0))

Taken(n) ==
    Once(LAMBDA int : TakenFrom(n, int), TakeDigits(n.int, <<>>, 0))

\* e*esign + d
Exponent(n, d) == (IF n.eneg THEN 0 - TakeExp(n.edigits) ELSE TakeExp(n.edigits)) + d

\* eType and eValid; the result of sqlite3AtoF: above zero for a
\* well-formed numeral, 1 for one of digits alone, 2 or 3 with a point or
\* an exponent; -1 for a text that starts as a numeral; 0 for any other
Type(n) == 1 + (IF n.point THEN 1 ELSE 0) + (IF n.exp THEN 1 ELSE 0)

ExpValid(n) == ~n.exp \/ n.edigits # <<>>

ReturnCode(n, nDigit) ==
    IF n.empty THEN 0
    ELSE IF n.end /\ nDigit > 0 /\ ExpValid(n) THEN Type(n)
    ELSE IF Type(n) >= 2 /\ (Type(n) = 3 \/ ExpValid(n)) /\ nDigit > 0
    THEN 0 - 1
    ELSE 0

\* the exponent is brought towards zero while the significand stays a
\* 64-bit integer: up, s takes a factor ten; down, s gives one up
RECURSIVE Reduce(_, _, _)
Reduce(s, e, down) ==
    IF e = 0 THEN [s |-> s, e |-> e]
    ELSE IF down
    THEN IF ModSmall(s, 10) # 0 THEN [s |-> s, e |-> e]
         ELSE Once(LAMBDA x : Reduce(x, e - 1, down), DivSmall(s, 10))
    ELSE IF ~NatLess(s, DivSmall(LargestInt64, 10)) THEN [s |-> s, e |-> e]
         ELSE Once(LAMBDA x : Reduce(x, e - 1, down), MulAdd(s, 10, 0))

\* result /= 1.0e+308, or result *= 1.0e+308, in double
SecondStep(x, down) ==
    IF down THEN DoubleDiv(x, Double1e308) ELSE DoubleMul(x, Double1e308)

\* result = s / scale, or s * scale: in long double, the result a double
FirstStep(s, scale, down) ==
    Once(ToDouble, IF down THEN LongDoubleDiv(s, scale)
                   ELSE LongDoubleMul(LongDouble(s), scale))

\* s * 10^e, or s / 10^e, as sqlite3AtoF computes it
Scaled(s, e, down) ==
    IF e = 0 THEN RoundDouble(s, FALSE, 0)
    ELSE IF e >= HugeExp THEN IF down THEN Zero ELSE Infinity
    ELSE IF e >= TwoStepExp
    THEN Once(LAMBDA x : SecondStep(x, down),
              Once(LAMBDA scale : FirstStep(s, scale, down),
                   Pow10(e - TwoStepExp)))
    ELSE Once(LAMBDA scale : FirstStep(s, scale, down), Pow10(e))

ScaledReduced(x, down) == Scaled(x.s, x.e, down)

\* the magnitude of the double sqlite3AtoF gives for the significand s and
\* the decimal exponent e
AtoF(s, e) ==
    IF s = <<>> THEN Zero
    ELSE Once(LAMBDA x : ScaledReduced(x, e < 0),
              Reduce(s, IF e < 0 THEN 0 - e ELSE e, e < 0))

\* a real and its whole part
IsWhole(r) == ~r.inf /\ (r.e2 >= 0 \/ LowBitsZero(r.m, 0 - r.e2))

WholePart(r) == IF r.e2 >= 0 THEN Shl(r.m, r.e2) ELSE Shr(r.m, 0 - r.e2)

\* a whole real from -2^51 up to, not including, 2^51 is the integer of
\* its text, and a whole real is an integer strictly between -2^63 and 2^63
SameAsIntBits == 51
Int64Bits == 63

TextValue == [type |-> "text", neg |-> FALSE, m |-> <<>>, e2 |-> 0, inf |-> FALSE]

IntegerValue(neg, digits) ==
    [type |-> "integer", neg |-> neg /\ digits # <<>>, m |-> digits,
     e2 |-> 0, inf |-> FALSE]

RealValue(neg, r) ==
    [type |-> "real", neg |-> neg, m |-> r.m, e2 |-> r.e2, inf |-> r.inf]

\* the whole real r of sign neg is inside the range of 2^bits: below 2^bits
\* in magnitude, or, where the range has its lowest value, -2^bits itself
InRange(neg, r, bits, lowest) ==
    \/ BitLen(r.m) + r.e2 <= bits
    \/ /\ lowest /\ neg
       /\ BitLen(r.m) + r.e2 = bits + 1
       /\ WholePart(r) = Shl(<<1>>, bits)

\* a real that is whole and inside the range of 2^bits is stored as an
\* integer: sqlite3RealSameAsInt takes -2^51 <= i < 2^51,
\* sqlite3VdbeIntegerAffinity -2^63 < i < 2^63
StoredWhole(neg, r, bits, lowest) ==
    IF r.inf THEN RealValue(neg, r)
    ELSE IF r.m = <<>> THEN IntegerValue(FALSE, <<>>)
    ELSE IF IsWhole(r) /\ InRange(neg, r, bits, lowest)
    THEN IntegerValue(neg, WholePart(r))
    ELSE RealValue(neg, r)

\* the most digits of a 64-bit integer
Int64Digits == 19

\* sqlite3Atoi64 succeeds on digits that, the zeros at the start apart,
\* are no more than 19 and fit a 64-bit integer
FitsInt64(neg, ds) ==
    /\ Len(ds) <= Int64Digits
    /\ \/ BitLen(FromDigits(ds, <<>>)) <= Int64Bits
       \/ neg /\ FromDigits(ds, <<>>) = Shl(<<1>>, Int64Bits)

\* alsoAnInt for a numeral of digits alone that sqlite3AtoF read as r: r
\* itself if it is zero, or whole and at least -2^51 and below 2^51; else
\* the digits if sqlite3Atoi64 takes them
AlsoAnInt(neg, ds, r) ==
    IF r.type = "integer" THEN r
    ELSE IF FitsInt64(neg, ds) THEN IntegerValue(neg, FromDigits(ds, <<>>))
    ELSE r

\* sqlite3VdbeIntegerAffinity: a real is stored as an integer if it is
\* whole and strictly between -2^63 and 2^63
IntegerAffinity(v) ==
    IF v.type = "integer" THEN v
    ELSE StoredWhole(v.neg, v, Int64Bits, FALSE)

\* applyNumericAffinity: a text that is no numeral stays a text; a numeral
\* becomes an integer or a real
StoredAs(n, rc, r) ==
    IF rc <= 0 THEN TextValue
    ELSE Once(IntegerAffinity,
              IF rc = 1
              THEN Once(LAMBDA w : AlsoAnInt(n.neg, SkipZeros(n.int), w),
                        StoredWhole(n.neg, r, SameAsIntBits, TRUE))
              ELSE RealValue(n.neg, r))

StoredTaken(n, t) ==
    Once2(LAMBDA rc, r : StoredAs(n, rc, r),
          ReturnCode(n, t.nDigit), AtoF(t.s, Exponent(n, t.d)))

StoredNumeral(n) == Once(LAMBDA t : StoredTaken(n, t), Taken(n))

\* what a column of INTEGER affinity stores for a text: SQLite converts a
\* text that is a well-formed numeral to an integer or a real, and stores
\* any other text as it is
Stored(t) == Once(StoredNumeral, ScanNumeral(t))

\* text that SQLite's INTEGER column affinity stores as an integer: a
\* numeral whose value, as a double where it has a point or an exponent,
\* is whole and fits 64 bits, as '9', ' 9', '+9', '-9', '9.0' and '1e0'
\* are; a numeral with a fraction, as '1.5' is, is stored as a real
IsIntText(t) == Stored(t).type = "integer"

\* the value of a stored integer
StoredInt(v) == IF v.neg THEN 0 - NatValue(v.m) ELSE NatValue(v.m)

\* the integer stored for a text that IsIntText
IntValue(t) == Once(StoredInt, Stored(t))

\* -1, 0, 1 as a stored number is below, at or above zero
SignOf(v) ==
    IF v.type = "integer" /\ v.m = <<>> THEN 0
    ELSE IF v.neg THEN 0 - 1 ELSE 1

\* |a| > |b| for two stored numbers that are not zero: SQLite compares an
\* integer with a real exactly
MagnitudeGreater(a, b) ==
    IF b.inf THEN FALSE
    ELSE IF a.inf THEN TRUE
    ELSE IF BitLen(a.m) + a.e2 # BitLen(b.m) + b.e2
    THEN BitLen(a.m) + a.e2 > BitLen(b.m) + b.e2
    ELSE IF a.e2 >= b.e2
    THEN NatLess(b.m, Shl(a.m, a.e2 - b.e2))
    ELSE NatLess(Shl(b.m, b.e2 - a.e2), a.m)

\* a > b for two stored numbers, integers and reals alike
NumericGreater(a, b) ==
    \/ SignOf(a) > SignOf(b)
    \/ SignOf(a) = 1 /\ SignOf(b) = 1 /\ MagnitudeGreater(a, b)
    \/ SignOf(a) = 0 - 1 /\ SignOf(b) = 0 - 1 /\ MagnitudeGreater(b, a)

\* x > y for two non-NULL values of the count column: numbers compare by
\* value, any text is greater than any number, texts compare byte-wise
CountGreater(x, y) ==
    \E u \in {x} : \E v \in {y} :
    \E a \in {Stored(u)} : \E b \in {Stored(v)} :
        IF a.type # "text" /\ b.type # "text" THEN NumericGreater(a, b)
        ELSE IF a.type # "text" THEN FALSE
        ELSE IF b.type # "text" THEN TRUE
        ELSE TextLess(v, u)

\* ORDER BY cluster_id ASC, feature_id ASC
RowLess(q, r) ==
    \/ TextLess(q.cluster_id, r.cluster_id)
    \/ q.cluster_id = r.cluster_id /\ TextLess(q.feature_id, r.feature_id)

\* CREATE TABLE sorted_feature_cluster_map AS SELECT * FROM
\* feature_cluster_map ORDER BY cluster_id ASC, feature_id ASC
SortedFeatureClusterMap(c) ==
    LET rows == {c[i] : i \in DOMAIN c}
    IN [i \in 1..Len(c) |->
           CHOOSE r \in rows : Cardinality({q \in rows : RowLess(q, r)}) = i - 1]

\* the row MAX(count) takes the bare columns from: the aggregate skips NULL
\* and replaces its best row only by a strictly greater count, so among
\* equal counts the first row in rowid order stays; best = 0 while none
RECURSIVE MaxRowFrom(_, _, _)
MaxRowFrom(group, i, best) ==
    IF i > Len(group) THEN best
    ELSE IF group[i].count = NoCount THEN MaxRowFrom(group, i + 1, best)
    ELSE IF best = 0 \/ CountGreater(group[i].count, group[best].count)
         THEN MaxRowFrom(group, i + 1, i)
         ELSE MaxRowFrom(group, i + 1, best)

\* a group whose counts are all NULL yields its last row
MaxRow(group) ==
    LET b == MaxRowFrom(group, 1, 0)
    IN IF b = 0 THEN group[Len(group)] ELSE group[b]

\* the ids of a FASTA file
FastaIds(fasta) == {fasta[i].id : i \in DOMAIN fasta}

\* rep_seqs.sequence_string of a feature
SequenceString(fasta, f) ==
    (CHOOSE e \in {fasta[i] : i \in DOMAIN fasta} : e.id = f).seq

\* text sorted ascending
SortedTexts(S) ==
    [i \in 1..Cardinality(S) |->
        CHOOSE x \in S : Cardinality({y \in S : TextLess(y, x)}) = i - 1]

\* the rows of SELECT cluster_id, sequence_string, MAX(count) FROM
\* sorted_feature_cluster_map INNER JOIN rep_seqs GROUP BY cluster_id
\* ORDER BY cluster_id ASC
SelectedRecords(c, input_seqs) ==
    LET sorted == SortedFeatureClusterMap(c)
        InRepSeqs(r) == r.feature_id \in FastaIds(input_seqs)
        joined == SelectSeq(sorted, InRepSeqs)
        clusters == SortedTexts({joined[i].cluster_id : i \in DOMAIN joined})
    IN [k \in DOMAIN clusters |->
           LET InCluster(r) == r.cluster_id = clusters[k]
               best == MaxRow(SelectSeq(joined, InCluster))
           IN [id |-> clusters[k],
               seq |-> SequenceString(input_seqs, best.feature_id)]]

\* feature_id is the PRIMARY KEY of rep_seqs: INSERT raises on a FASTA file
\* that holds an id twice
RepeatsId(fasta) ==
    \E i, j \in DOMAIN fasta : i # j /\ fasta[i].id = fasta[j].id

IntegrityError == Err("IntegrityError", "UNIQUE constraint failed", {})

\* _fasta_from_sqlite(conn, input_fasta_fp, output_fasta_fp): the error it
\* raises and the records it writes; rep_seqs is filled before the output
\* file is opened
FastaFromSqlite(c, input_seqs) ==
    IF RepeatsId(input_seqs)
    THEN [error |-> IntegrityError, records |-> <<>>]
    ELSE [error |-> NoError, records |-> SelectedRecords(c, input_seqs)]

-----------------------------------------------------------------------------
(* Pure-function run: _fasta_from_sqlite on a drawn mapping and FASTA *)

\* the counts drawn are 9 .. 9 + CountSpan, so that the order of the
\* integers (9 < 10) and the order of their texts ("10" < "9") differ
CountSpan == 1
RepCounts == {Decimal(n) : n \in 9..(9 + CountSpan)}

\* the rows _uc_to_sqlite can store for a feature: a seed row (its own
\* cluster, no count) or a hit row
RepRows(f) ==
    {[cluster_id |-> f, count |-> NoCount]}
        \cup [cluster_id : ClusterIds, count : RepCounts]

InitRepSeqs ==
    /\ op = "fasta_from_sqlite"
    /\ pc = "start"
    /\ conn \in ConnsOver(FeatureIds, [f \in FeatureIds |-> RepRows(f)])
    /\ sequences \in FastaFiles(FeatureIds) \cup RepeatingFastaFiles({<<"a">>})
    /\ table0 = EmptyTable /\ table = EmptyTable /\ out_table = EmptyTable
    /\ refs = <<>> /\ sized = <<>> /\ uc = <<>> /\ notmatched = <<>>
    /\ unmatched_seqs = <<>> /\ out_seqs = <<>> /\ cmds = <<>>
    /\ assign = <<>> /\ open = NoFrame
    /\ temps = {} /\ chimera = NoChimera
    /\ parse = NoParse /\ stats = NoStats
    /\ error = NoError

\* _fasta_from_sqlite(conn, input_fasta_fp, output_fasta_fp): no statement of
\* it raises on a membership row whose feature has no sequence
FastaStep ==
    /\ op = "fasta_from_sqlite"
    /\ pc = "start"
    /\ \E r \in {FastaFromSqlite(conn, sequences)} :
          /\ out_seqs' = r.records
          /\ error' = r.error
          /\ pc' = IF r.error = NoError THEN "done" ELSE "raised"
    /\ UNCHANGED <<op, table0, table, sequences, refs, sized, uc, notmatched,
                   unmatched_seqs, conn, out_table, cmds, assign,
                   open, temps, chimera, parse, stats>>

NextRepSeqs == FastaStep

SpecRepSeqs == InitRepSeqs /\ [][NextRepSeqs]_vars

-----------------------------------------------------------------------------
RepSeqsDone == op = "fasta_from_sqlite" /\ pc = "done"

ConnRows == {conn[i] : i \in DOMAIN conn}
CountsAllPresent ==
    \A r \in ConnRows : r.count # NoCount /\ IsIntText(r.count)
MembersAllHaveSequences == ConnIds(conn) \subseteq FastaIds(sequences)

\* f comes before g in the selector's order: count descending as integers,
\* then feature id ascending
Precedes(f, g) ==
    \E x \in {IntValue(f.count)} : \E y \in {IntValue(g.count)} :
        x > y \/ (x = y /\ TextLess(f.feature_id, g.feature_id))

\* C3: for every membership mapping whose counts are all present,
\* _fasta_from_sqlite writes one record per cluster id, labelled with the
\* cluster id, in ascending cluster-id order, holding the sequence of the
\* member with the highest integer count, ties going to the smallest feature
\* id; the records do not depend on the insertion order of the rows.
C3_RepresentativeIsFirstInOrder ==
    (RepSeqsDone /\ CountsAllPresent) =>
        /\ {out_seqs[i].id : i \in DOMAIN out_seqs}
               = {r.cluster_id : r \in ConnRows}
        /\ \A i, j \in DOMAIN out_seqs :
               i < j => TextLess(out_seqs[i].id, out_seqs[j].id)
        /\ \A i \in DOMAIN out_seqs :
               \E f \in ConnRows :
                  /\ f.cluster_id = out_seqs[i].id
                  /\ \A g \in ConnRows :
                        (g.cluster_id = f.cluster_id /\ g # f) => Precedes(f, g)
                  /\ out_seqs[i].seq = SeqOf(f.feature_id)
        /\ \A p \in Arrangements(DOMAIN conn) :
               FastaFromSqlite([i \in DOMAIN conn |-> conn[p[i]]],
                               sequences).records
                   = out_seqs

\* C4: a membership row whose feature id has no record in the sequence set
\* makes _fasta_from_sqlite fail with an error.
C4_MissingSequenceIsAnError ==
    (RepSeqsDone /\ ~MembersAllHaveSequences) => error # NoError

-----------------------------------------------------------------------------
(* The try block of cluster_features_closed_reference *)

NoMatches == Err("VSearchError", "no matches", {})

\* an except clause that catches nothing (not the code)
CaughtNothing(e) == FALSE

\* the except clause catches e
CaughtAsValueError(e) == IsValueError(e)

\* what the statements of the try block raise: _uc_to_sqlite its own error,
\* _collapse_f_from_sqlite ValueError on an empty mapping, then
\* _fasta_from_sqlite its own error
TryRaised(parsed, fasta) ==
    IF parsed.error # NoError THEN parsed.error
    ELSE IF Len(parsed.conn) = 0
         THEN Err("ValueError", "no sequence matches", {})
         ELSE fasta.error

\* except ValueError: raise VSearchError; any other error leaves the block
\* as it is
TryOutcome(parsed, fasta, raised) ==
    [conn |-> parsed.conn,
     error |-> IF CaughtAsValueError(raised) THEN NoMatches ELSE raised,
     matched |-> IF raised = NoError THEN fasta.records ELSE <<>>]

TryWith(parsed, fasta) ==
    Once(LAMBDA raised : TryOutcome(parsed, fasta, raised),
         TryRaised(parsed, fasta))

TryParsed(parsed, input_seqs) ==
    Once(LAMBDA fasta : TryWith(parsed, fasta),
         FastaFromSqlite(parsed.conn, input_seqs))

\* conn = _uc_to_sqlite(out_uc); collapse_f = _collapse_f_from_sqlite(conn);
\* _fasta_from_sqlite(conn, sequences, matched_seqs), any ValueError raised
\* by them being replaced by VSearchError
ClosedReferenceTry(lines, input_seqs) ==
    Once(LAMBDA parsed : TryParsed(parsed, input_seqs), UcToSqlite(lines))

-----------------------------------------------------------------------------
(* Run of the try block on a drawn membership file *)

\* the longest membership file drawn
MaxUcLen == 2

\* well-formed and malformed lines of a membership file
UcLines ==
    { UcLine(<<"S">>, SizedId(<<"a">>, 2), <<"*">>),
      UcLine(<<"H">>, SizedId(<<"a">>, 2), <<"r">>),
      UcLine(<<"H">>, SizedId(<<"b">>, 1), <<"r", ";", "1">>),
      UcLine(<<"H">>, SizedId(<<"a", ";", "b">>, 1), SizedId(<<"a">>, 2)),
      UcLine(<<"S">>, SizedId(<<"a", ";", "b">>, 1), <<"*">>),
      UcLine(<<"N">>, SizedId(<<"b">>, 1), <<"*">>),
      UcLine(<<"C">>, SizedId(<<"a">>, 2), <<"*">>),
      BlankLine,
      << <<"#", "c">> >>,
      <<<<"H">>, <<"*">>, <<"*">>>>,
      UcLine(<<"H">>, <<"b">>, <<"r">>),
      UcLine(<<"S">>, <<"b", BadByte>>, <<"*">>),
      UcLine(<<"H">>, SizedId(<<"b">>, 1), <<"r", BadByte>>) }

UcFiles == UNION { [1..n -> UcLines] : n \in 0..MaxUcLen }

InitTry ==
    /\ op = "closed_reference_try"
    /\ pc = "start"
    /\ uc \in UcFiles
    /\ sequences \in {s \in FastaFiles(FeatureIds) : Len(s) = 3 /\ s[1].id = <<"a">>}
                       \cup RepeatingFastaFiles({<<"a">>})
    /\ table0 = EmptyTable /\ table = EmptyTable /\ out_table = EmptyTable
    /\ refs = <<>> /\ sized = <<>> /\ notmatched = <<>>
    /\ unmatched_seqs = <<>> /\ out_seqs = <<>> /\ cmds = <<>>
    /\ assign = <<>> /\ open = NoFrame
    /\ temps = {} /\ chimera = NoChimera
    /\ parse = NoParse /\ stats = NoStats
    /\ conn = EmptyConn
    /\ error = NoError

\* lines 282-295 of cluster_features_closed_reference
TryStep ==
    /\ op = "closed_reference_try"
    /\ pc = "start"
    /\ \E r \in {ClosedReferenceTry(uc, sequences)} :
          /\ conn' = r.conn
          /\ error' = r.error
          /\ out_seqs' = r.matched
          /\ pc' = IF r.error = NoError THEN "done" ELSE "raised"
    /\ UNCHANGED <<op, table0, table, sequences, refs, sized, uc, notmatched,
                   unmatched_seqs, out_table, cmds, assign,
                   open, temps, chimera, parse, stats>>

NextTry == TryStep

SpecTry == InitTry /\ [][NextTry]_vars

IsSeedOrHit(line) == line[1] = <<"S">> \/ line[1] = <<"H">>
NoSeedOrHit(lines) == \A i \in DOMAIN lines : ~IsSeedOrHit(lines[i])

\* C9: the no-matches error is raised only when the membership file yields
\* an empty mapping (it holds no seed or hit record); a failure to parse a
\* seed or hit record is never reported as no matches.
C9_NoMatchesOnlyWhenEmpty ==
    (op = "closed_reference_try" /\ error.kind = "VSearchError")
        => NoSeedOrHit(uc)

-----------------------------------------------------------------------------
(* _error_on_nonoverlapping_ids and _fasta_with_sizes *)

InTableNotSequences == "present in table, but not in sequences"
InSequencesNotTable == "present in sequences, but not in table"

\* _error_on_nonoverlapping_ids: the error joins all the extra ids
ErrorOnNonoverlappingIds(table_ids, sequence_ids, check_extra_table_ids, check_extra_sequence_ids) ==
    IF check_extra_table_ids /\ table_ids \ sequence_ids # {}
    THEN Err("ValueError", InTableNotSequences, table_ids \ sequence_ids)
    ELSE IF check_extra_sequence_ids /\ sequence_ids \ table_ids # {}
    THEN Err("ValueError", InSequencesNotTable, sequence_ids \ table_ids)
    ELSE NoError

\* the loop of _fasta_with_sizes from record i on: it raises at the first
\* sequence whose id is no row of the table, after writing those before it
RECURSIVE SizesFrom(_, _, _, _)
SizesFrom(input_seqs, t, i, written) ==
    IF i > Len(input_seqs) THEN [file |-> written, error |-> NoError]
    ELSE LET feature_id == input_seqs[i].id
         IN IF feature_id \notin RowIds(t)
            THEN [file |-> written,
                  error |-> Err("ValueError", InSequencesNotTable, {feature_id})]
            ELSE SizesFrom(input_seqs, t, i + 1,
                           Append(written,
                                  [id |-> SizedId(feature_id, RowSum(t, feature_id)),
                                   seq |-> input_seqs[i].seq]))

\* _fasta_with_sizes without its closing check of the table's ids
\* (not the code)
FastaWithSizesLoopOnly(input_seqs, t) == SizesFrom(input_seqs, t, 1, <<>>)

\* _fasta_with_sizes writing the same size for every feature (not the code)
FastaWithSizesAllOnes(input_seqs, t) ==
    LET loop == SizesFrom(input_seqs, t, 1, <<>>)
    IN [file |-> [i \in DOMAIN loop.file |->
                     [id |-> SizedId(input_seqs[i].id, 1),
                      seq |-> loop.file[i].seq]],
        error |-> IF loop.error # NoError THEN loop.error
                  ELSE ErrorOnNonoverlappingIds(RowIds(t), FastaIds(input_seqs),
                                                TRUE, FALSE)]

\* _fasta_with_sizes(input_fasta_fp, output_fasta_fp, table)
FastaWithSizes(input_seqs, t) ==
    LET loop == SizesFrom(input_seqs, t, 1, <<>>)
    IN IF loop.error # NoError THEN loop
       ELSE [file |-> loop.file,
             error |-> ErrorOnNonoverlappingIds(RowIds(t), FastaIds(input_seqs),
                                                TRUE, FALSE)]

\* the check of closed-reference, the sequence ids looked at first (not the
\* code)
ClosedReferenceCheckSequencesFirst(t, input_seqs) ==
    IF FastaIds(input_seqs) \ RowIds(t) # {}
    THEN Err("ValueError", InSequencesNotTable, FastaIds(input_seqs) \ RowIds(t))
    ELSE ErrorOnNonoverlappingIds(RowIds(t), FastaIds(input_seqs), TRUE, FALSE)

\* _error_on_nonoverlapping_ids(table_ids, sequence_ids), both checks being
\* on by default
ClosedReferenceCheck(t, input_seqs) ==
    ErrorOnNonoverlappingIds(RowIds(t), FastaIds(input_seqs), TRUE, TRUE)

-----------------------------------------------------------------------------
(* The external tool, by the interface the code relies on *)

NoHit == <<"*">>

\* --xsize: the tool strips the abundance annotation that ends an id
XSize(id) ==
    LET pieces == Split(id, SizeSep)
    IN IF Len(pieces) = 1 THEN id
       ELSE Join(SubSeq(pieces, 1, Len(pieces) - 1), SizeSep)

\* the records of a FASTA file at the positions idx, in file order
RECURSIVE RecordsFrom(_, _, _)
RecordsFrom(fasta, idx, i) ==
    IF i > Len(fasta) THEN <<>>
    ELSE IF i \in idx THEN <<fasta[i]>> \o RecordsFrom(fasta, idx, i + 1)
    ELSE RecordsFrom(fasta, idx, i + 1)

Records(fasta, idx) == RecordsFrom(fasta, idx, 1)

\* --usearch_global --uc --notmatched: every query is reported either as a
\* hit (H) of one reference or as unmatched (N, and written to --notmatched)
UsearchGlobalUc(queries, a) ==
    [i \in DOMAIN queries |->
        IF a[i] = NoHit THEN UcLine(<<"N">>, queries[i].id, <<"*">>)
        ELSE UcLine(<<"H">>, queries[i].id, a[i])]

\* --cluster_size --uc: every query is a seed (S) or a hit (H) of a seed,
\* and every cluster gets a summary record (C)
ClusterSizeUc(queries, a) ==
    LET seeds == Records(queries, {i \in DOMAIN queries : a[i] = i})
    IN [i \in DOMAIN queries |->
           IF a[i] = i THEN UcLine(<<"S">>, queries[i].id, <<"*">>)
           ELSE UcLine(<<"H">>, queries[i].id, queries[a[i]].id)]
       \o [k \in DOMAIN seeds |-> UcLine(<<"C">>, seeds[k].id, <<"*">>)]

\* membership files that break the format although the tool exited with
\* status 0: the output is cut inside the last field of its first record (a
\* hit), either inside a multi-byte character of the target label, or before
\* the tab that precedes it
CutUcFiles(queries) ==
    IF queries = <<>> THEN {}
    ELSE { <<UcLine(<<"H">>, queries[1].id, <<"r", BadByte>>)>>,
           <<SubSeq(UcLine(<<"H">>, queries[1].id, <<"*">>), 1, TargetCol)>> }

StripSizes(fasta) ==
    [i \in DOMAIN fasta |-> [id |-> XSize(fasta[i].id), seq |-> fasta[i].seq]]

-----------------------------------------------------------------------------
(* cluster_features_de_novo and cluster_features_closed_reference *)

RefFasta ==
    <<[id |-> <<"r">>, seq |-> "ACGT"], [id |-> <<"r", ";", "1">>, seq |-> "TGCA"]>>

ToolFailed(cmd) == Err("CalledProcessError", cmd, {})

\* the abundance the tool reads in a label: the number after its last
\* ';size='
SizeAnnotation(id) ==
    LET pieces == Split(id, SizeSep)
    IN DecimalValue(pieces[Len(pieces)], 0)

\* the orders in which the tool takes the records of a FASTA file when it
\* sorts them by decreasing abundance (--cluster_size, --sortbysize): p[k]
\* is the position in the file of the record taken k-th; the order it gives
\* to equally abundant records is its own
BySizeOrders(fasta) ==
    {p \in Arrangements(DOMAIN fasta) :
        \A i, j \in DOMAIN p :
            i < j => SizeAnnotation(fasta[p[i]].id) >= SizeAnnotation(fasta[p[j]].id)}

\* the records of a FASTA file in the order p
Reordered(fasta, p) == [k \in DOMAIN p |-> fasta[p[k]]]

\* the place the order p gives to the record at position i of the file
PlaceIn(p, i) == CHOOSE k \in DOMAIN p : p[k] = i

\* the files made by the tempfile.NamedTemporaryFile() calls of an operation
TempFiles(o) ==
    IF o = "closed_reference"
    THEN {"fasta_with_sizes", "out_uc", "tmp_unmatched_seqs"}
    ELSE IF o = "de_novo" THEN {"fasta_with_sizes", "out_uc"}
    ELSE IF o = "dereplicate_sequences" THEN {"out_uc"}
    ELSE {"fasta_with_sizes", "temp_chimeras"}

CloseTempsKeepingFiles(files) == files

\* leaving the with block, by return or by exception, closes every
\* NamedTemporaryFile; they are made with the default delete=True
CloseTemps(files) == {}

InitCluster ==
    /\ op \in {"de_novo", "closed_reference"}
    /\ pc = "start"
    /\ table \in {EmptyTable} \cup TablesOver(FeatureIds, {0, MaxCell})
    /\ table0 = table
    /\ sequences \in FastaFiles(FeatureIds)
    /\ refs = IF op = "closed_reference" THEN RefFasta ELSE <<>>
    /\ sized = <<>> /\ uc = <<>> /\ notmatched = <<>>
    /\ unmatched_seqs = <<>> /\ out_seqs = <<>> /\ cmds = <<>>
    /\ conn = EmptyConn /\ out_table = EmptyTable
    /\ assign = <<>> /\ open = NoFrame
    /\ temps = {} /\ chimera = NoChimera
    /\ parse = NoParse /\ stats = NoStats
    /\ error = NoError

\* closed-reference, lines 242-246: the id check made before anything else
ValidateIds ==
    /\ op = "closed_reference" /\ pc = "start"
    /\ LET e == ClosedReferenceCheck(table, sequences)
       IN /\ error' = e
          /\ pc' = IF e = NoError THEN "validated" ELSE "raised"
    /\ UNCHANGED <<op, table0, table, sequences, refs, sized, uc, notmatched,
                   unmatched_seqs, conn, out_table, out_seqs, cmds, assign,
                   open, temps, chimera, parse, stats>>

\* _fasta_with_sizes(str(sequences), fasta_with_sizes.name, table)
WriteSizedFasta ==
    /\ \/ op = "de_novo" /\ pc = "start"
       \/ op = "closed_reference" /\ pc = "validated"
       \/ op \in {"uchime_ref", "uchime_denovo"} /\ pc = "start"
    /\ LET r == FastaWithSizes(sequences, table)
       IN /\ sized' = r.file
          /\ error' = r.error
          /\ pc' = IF r.error = NoError THEN "sized" ELSE "raised"
          /\ temps' = IF r.error = NoError THEN TempFiles(op)
                      ELSE CloseTemps(TempFiles(op))
    /\ UNCHANGED <<op, table0, table, sequences, refs, uc, notmatched,
                   unmatched_seqs, conn, out_table, out_seqs, cmds, assign,
                   open, chimera, parse, stats>>

\* de novo: run_command(['vsearch', '--cluster_size', ...]); the tool takes
\* its queries in order of decreasing abundance, a query being a seed or a
\* hit of a seed taken before it, and writes the membership records and the
\* centroids in that order; assign gives, by position in the sized FASTA,
\* the seed of each query
RunClusterSize ==
    /\ op = "de_novo" /\ pc = "sized"
    /\ cmds' = Append(cmds, "cluster_size")
    /\ \/ /\ error' = ToolFailed("cluster_size")
          /\ pc' = "raised"
          /\ temps' = CloseTemps(temps)
          /\ UNCHANGED <<uc, out_seqs, assign>>
       \/ \E p \in BySizeOrders(sized) :
          \E a \in [DOMAIN sized -> DOMAIN sized] :
             LET queries == Reordered(sized, p)
                 seed == [k \in DOMAIN p |-> PlaceIn(p, a[p[k]])]
             IN /\ \A k \in DOMAIN p : seed[seed[k]] = seed[k] /\ seed[k] <= k
                /\ assign' = a
                /\ uc' = ClusterSizeUc(queries, seed)
                /\ out_seqs' =
                       StripSizes(Records(queries,
                                          {k \in DOMAIN p : seed[k] = k}))
                /\ pc' = "clustered"
                /\ UNCHANGED <<error, temps>>
    /\ UNCHANGED <<op, table0, table, sequences, refs, sized, notmatched,
                   unmatched_seqs, conn, out_table,
                   open, chimera, parse, stats>>

\* de novo, lines 199-208: parse the membership file, collapse, return
FinishDeNovo ==
    /\ op = "de_novo" /\ pc = "clustered"
    /\ \E parsed \in {UcToSqlite(uc)} :
       \E co \in {CollapseOutcome(table, parsed.conn)} :
       LET e == IF parsed.error # NoError THEN parsed.error ELSE co.error
       IN /\ conn' = parsed.conn
          /\ error' = e
          /\ out_table' = IF e = NoError THEN co.table ELSE EmptyTable
          /\ pc' = IF e = NoError THEN "done" ELSE "raised"
    /\ temps' = CloseTemps(temps)
    /\ UNCHANGED <<op, table0, table, sequences, refs, sized, uc, notmatched,
                   unmatched_seqs, out_seqs, cmds, assign,
                   open, chimera, parse, stats>>

\* closed-reference: run_command(['vsearch', '--usearch_global', ...])
RunUsearchGlobal ==
    /\ op = "closed_reference" /\ pc = "sized"
    /\ cmds' = Append(cmds, "usearch_global")
    /\ \/ /\ error' = ToolFailed("usearch_global")
          /\ pc' = "raised"
          /\ temps' = CloseTemps(temps)
          /\ UNCHANGED <<uc, notmatched, assign>>
       \/ \E a \in [DOMAIN sized -> FastaIds(refs) \cup {NoHit}] :
             /\ assign' = a
             /\ uc' = UsearchGlobalUc(sized, a)
             /\ notmatched' =
                    Records(sized, {i \in DOMAIN sized : a[i] = NoHit})
             /\ pc' = "searched"
             /\ UNCHANGED <<error, temps>>
       \/ \E cut \in CutUcFiles(sized) :
             /\ uc' = cut
             /\ notmatched' = <<>>
             /\ assign' = <<>>
             /\ pc' = "searched"
             /\ UNCHANGED <<error, temps>>
    /\ UNCHANGED <<op, table0, table, sequences, refs, sized,
                   unmatched_seqs, conn, out_table, out_seqs,
                   open, chimera, parse, stats>>

\* closed-reference, lines 268-280: run only if --notmatched is not empty
RunSortBySize ==
    /\ op = "closed_reference" /\ pc = "searched"
    /\ notmatched # <<>>
    /\ cmds' = Append(cmds, "sortbysize")
    /\ \/ /\ error' = ToolFailed("sortbysize")
          /\ pc' = "raised"
          /\ temps' = CloseTemps(temps)
          /\ UNCHANGED unmatched_seqs
       \/ \E p \in BySizeOrders(notmatched) :
             /\ unmatched_seqs' = StripSizes(Reordered(notmatched, p))
             /\ pc' = "sorted"
             /\ UNCHANGED <<error, temps>>
    /\ UNCHANGED <<op, table0, table, sequences, refs, sized, uc, notmatched,
                   conn, out_table, out_seqs, assign,
                   open, chimera, parse, stats>>

\* closed-reference, lines 282-307: the try block, then the table is
\* filtered in place, collapsed and returned
FinishClosedReference ==
    /\ op = "closed_reference"
    /\ pc = "sorted" \/ (pc = "searched" /\ notmatched = <<>>)
    /\ \E try \in {ClosedReferenceTry(uc, sequences)} :
       \E filtered \in {FilterOut(table, FastaIds(unmatched_seqs))} :
       \E co \in {CollapseOutcome(filtered, try.conn)} :
       LET e == IF try.error # NoError THEN try.error ELSE co.error
       IN /\ conn' = try.conn
          /\ out_seqs' = try.matched
          /\ table' = IF try.error # NoError THEN table ELSE filtered
          /\ error' = e
          /\ out_table' = IF e = NoError THEN co.table ELSE EmptyTable
          /\ pc' = IF e = NoError THEN "done" ELSE "raised"
    /\ temps' = CloseTemps(temps)
    /\ UNCHANGED <<op, table0, sequences, refs, sized, uc, notmatched,
                   unmatched_seqs, cmds, assign, open, chimera, parse, stats>>

NextCluster ==
    \/ ValidateIds
    \/ WriteSizedFasta
    \/ RunClusterSize
    \/ FinishDeNovo
    \/ RunUsearchGlobal
    \/ RunSortBySize
    \/ FinishClosedReference

SpecCluster == InitCluster /\ [][NextCluster]_vars

-----------------------------------------------------------------------------
(* Claims about the two pipelines *)

Clustering == op \in {"de_novo", "closed_reference"}
InputTableIds == RowIds(table0)
InputSequenceIds == FastaIds(sequences)
ConsistencyError ==
    /\ pc = "raised"
    /\ error.kind = "ValueError"
    /\ error.what \in {InTableNotSequences, InSequencesNotTable}

\* C5: de novo raises the input-consistency ValueError whenever the id sets
\* differ, closed-reference whenever the table holds an id the sequences
\* lack; the error comes before any run_command call and nothing is returned.
C5_ConsistencyErrorBeforeTool ==
    (\/ op = "de_novo" /\ InputTableIds # InputSequenceIds
     \/ op = "closed_reference" /\ ~(InputTableIds \subseteq InputSequenceIds))
        => /\ cmds = <<>>
           /\ pc \in {"start", "raised"}
           /\ pc = "raised" => ConsistencyError
           /\ out_table = EmptyTable

\* de novo raised for an id of the table alone, after the sized FASTA had
\* been written in full and before any command was run
C5_Witness ==
    /\ op = "de_novo" /\ ConsistencyError
    /\ error.what = InTableNotSequences
    /\ InputSequenceIds # {} /\ InputSequenceIds \subseteq InputTableIds
    /\ cmds = <<>>

SequencesAloneHaveExtra ==
    /\ op = "closed_reference"
    /\ InputTableIds \subseteq InputSequenceIds
    /\ InputSequenceIds # InputTableIds

\* C6: closed-reference raises no input-consistency error when only the
\* sequence set has extra ids, and goes on to the external tool.
C6_ExtraSequenceIdsAccepted ==
    (SequencesAloneHaveExtra /\ pc # "start") => error.kind # "ValueError"

\* the first sequence, in file order, whose id is no row of the table
FirstSequenceNotInTable ==
    LET i == CHOOSE j \in DOMAIN sequences :
                 /\ sequences[j].id \notin InputTableIds
                 /\ \A k \in 1..(j - 1) : sequences[k].id \in InputTableIds
    IN sequences[i].id

\* C7: every input-consistency error of de novo and closed-reference names
\* every offending id of the direction it reports.
C7_ErrorNamesAllIds ==
    (Clustering /\ ConsistencyError) =>
        /\ error.what = InTableNotSequences
              => error.ids = InputTableIds \ InputSequenceIds
        /\ error.what = InSequencesNotTable
              => error.ids = InputSequenceIds \ InputTableIds

Ended == pc \in {"done", "raised"}

\* C8: when the membership output of the tool holds no seed or hit record,
\* closed-reference raises the no-matches VSearchError and returns nothing.
C8_EmptyMappingRaisesNoMatches ==
    (/\ op = "closed_reference" /\ Ended
     /\ cmds # <<>> /\ error.kind # "CalledProcessError"
     /\ NoSeedOrHit(uc))
        => /\ pc = "raised"
           /\ error = NoMatches
           /\ out_table = EmptyTable

\* three queries, none matched: both commands ran, then no-matches
C8_Witness ==
    /\ op = "closed_reference" /\ pc = "raised" /\ error = NoMatches
    /\ Len(uc) = 3 /\ NoSeedOrHit(uc)
    /\ cmds = <<"usearch_global", "sortbysize">>

\* the queries the tool reported as hits of reference r
HitsOf(r) == {sequences[i].id : i \in {j \in DOMAIN assign : assign[j] = r}}
ReferencesHit == {assign[i] : i \in DOMAIN assign} \ {NoHit}

\* C10: on success of closed-reference the rows of the clustered table are
\* exactly the reference ids hit by some input feature, labelled with the
\* reference id, and each cell is the sum of the counts of the features that
\* hit that reference, unmatched features adding to no row.
C10_RowsAreReferencesHit ==
    (op = "closed_reference" /\ pc = "done") =>
        /\ DOMAIN out_table = ReferencesHit
        /\ \A r \in DOMAIN out_table : \A s \in Samples :
              out_table[r][s] =
                  SumOver([f \in HitsOf(r) |-> table0[f][s]], HitsOf(r))

\* C11: neither operation modifies the caller's table: once the call has
\* returned or raised, the table has the rows, samples and cells it had
\* before the call.
C11_CallerTableUnchanged ==
    (Clustering /\ Ended) => table = table0

-----------------------------------------------------------------------------
(* cluster_features_open_reference and the actions it gets from ctx *)

\* feature_table.filter_features(table, metadata): the rows whose ids the
\* metadata lists are kept and, filter_empty_samples being True by default,
\* the samples in which none of the rows kept is present are dropped
FilterFeatures(t, ids) ==
    LET kept == (DOMAIN t) \cap ids
        present == {s \in SampleIds(t) : \E r \in kept : t[r][s] > 0}
    IN [r \in kept |-> [s \in present |-> t[r][s]]]

\* the cell of row r and sample s in a merged table: absent cells are zero
CellOrZero(t, r, s) ==
    IF r \in DOMAIN t /\ s \in SampleIds(t) THEN t[r][s] ELSE 0

\* feature_table.merge(tables=[t1, t2], overlap_method='sum'): the rows
\* that both tables have are added up (not the code)
MergeTablesSumming(t1, t2) ==
    [error |-> NoError,
     table |-> [r \in (DOMAIN t1) \cup (DOMAIN t2) |->
                  [s \in SampleIds(t1) \cup SampleIds(t2) |->
                      CellOrZero(t1, r, s) + CellOrZero(t2, r, s)]]]

\* feature_table.merge(tables=[t1, t2],
\* overlap_method='error_on_overlapping_feature'): ValueError if a feature
\* id is in both tables, else the union of their rows and of their samples
MergeTables(t1, t2) ==
    IF (DOMAIN t1) \cap (DOMAIN t2) # {}
    THEN [error |-> Err("ValueError", "same feature ids in more than one table",
                        (DOMAIN t1) \cap (DOMAIN t2)),
          table |-> EmptyTable]
    ELSE [error |-> NoError,
          table |-> [r \in (DOMAIN t1) \cup (DOMAIN t2) |->
                       [s \in SampleIds(t1) \cup SampleIds(t2) |->
                           CellOrZero(t1, r, s) + CellOrZero(t2, r, s)]]]

\* a merge that returns the first set of sequences alone (not the code)
MergeSeqsFirstOnly(d1, d2) == d1

\* feature_table.merge_seqs(data=[d1, d2]): the union of the two sets of
\* sequences, in ascending order of id; for an id that both have, the
\* sequence of the first is kept
MergeSeqs(d1, d2) ==
    LET ids == SortedTexts(FastaIds(d1) \cup FastaIds(d2))
    IN [i \in DOMAIN ids |->
           [id |-> ids[i],
            seq |-> IF ids[i] \in FastaIds(d1)
                    THEN SequenceString(d1, ids[i])
                    ELSE SequenceString(d2, ids[i])]]

\* the reference sequences handed to the pipeline: one id holds a ';' and
\* one is also the id of an input feature, whose sequence is another
OpenRefFasta ==
    <<[id |-> <<"r", ";", "1">>, seq |-> "TGCA"], [id |-> <<"b">>, seq |-> "GGCC"]>>

\* except VSearchError
SwallowedAnyError(e) == TRUE

Swallowed(e) == e.kind = "VSearchError"

\* a test that takes every sequence set for non-empty (not the code)
HasUnmatchedAlways(seqs) == TRUE

\* unmatched_seqs.view(pd.Series).size > 0
HasUnmatched(seqs) == Len(seqs) > 0

\* the inputs of the pipeline: features that were observed at least once
InitOpen ==
    /\ op = "open_reference"
    /\ pc = "start"
    /\ \E t \in {EmptyTable} \cup
                {x \in TablesOver(FeatureIds, {0, MaxCell}) :
                    \A r \in DOMAIN x : RowSum(x, r) > 0} :
       \E input_seqs \in FastaFiles(FeatureIds) :
          open = [NoFrame EXCEPT !.stage = "START",
                                 !.table = t,
                                 !.sequences = input_seqs,
                                 !.reference_sequences = OpenRefFasta]
    /\ table0 = EmptyTable /\ table = EmptyTable /\ out_table = EmptyTable
    /\ sequences = <<>> /\ refs = <<>> /\ sized = <<>> /\ uc = <<>>
    /\ notmatched = <<>> /\ unmatched_seqs = <<>> /\ out_seqs = <<>>
    /\ cmds = <<>> /\ assign = <<>>
    /\ conn = EmptyConn
    /\ error = NoError
    /\ temps = {} /\ chimera = NoChimera
    /\ parse = NoParse /\ stats = NoStats

\* lines 321-327: the pipeline calls cluster_features_closed_reference on
\* views of its own arguments
CallClosedReference ==
    /\ UNCHANGED <<temps, chimera, parse, stats>>
    /\ op = "open_reference" /\ open.stage = "START"
    /\ op' = "closed_reference"
    /\ pc' = "start"
    /\ table' = open.table
    /\ table0' = open.table
    /\ sequences' = open.sequences
    /\ refs' = open.reference_sequences
    /\ open' = [open EXCEPT
                   !.stage = "CLOSED_REF",
                   !.calls = Append(@, "cluster_features_closed_reference")]
    /\ UNCHANGED <<sized, uc, notmatched, unmatched_seqs, conn, out_table,
                   out_seqs, error, cmds, assign>>

\* lines 322-336: the call has returned or raised; VSearchError is caught
\* and the source data stands in for the unmatched sequences
ReturnFromClosedReference ==
    /\ UNCHANGED <<temps, chimera, parse, stats>>
    /\ op = "closed_reference" /\ open.stage = "CLOSED_REF"
    /\ pc \in {"done", "raised"}
    /\ op' = "open_reference"
    /\ IF pc = "done"
       THEN /\ open' = [open EXCEPT !.stage = "CLOSED_REF_ATTEMPTED",
                                    !.skipped_closed_ref = FALSE,
                                    !.closed_ref_table = out_table,
                                    !.rep_seqs = out_seqs,
                                    !.unmatched_seqs = unmatched_seqs]
            /\ pc' = "running"
            /\ UNCHANGED error
       ELSE IF Swallowed(error)
       THEN /\ open' = [open EXCEPT !.stage = "CLOSED_REF_ATTEMPTED",
                                    !.skipped_closed_ref = TRUE,
                                    !.closed_ref_table = open.table,
                                    !.unmatched_seqs = open.sequences]
            /\ pc' = "running"
            /\ error' = NoError
       ELSE /\ open' = [open EXCEPT !.stage = "RAISED"]
            /\ pc' = "raised"
            /\ UNCHANGED error
    /\ UNCHANGED <<table0, table, sequences, refs, sized, uc, notmatched,
                   unmatched_seqs, conn, out_table, out_seqs, cmds, assign>>

\* lines 340-347: unmatched sequences remain; the table is restricted to
\* them and cluster_features_de_novo is called
CallDeNovo ==
    /\ UNCHANGED <<temps, chimera, parse, stats>>
    /\ op = "open_reference" /\ open.stage = "CLOSED_REF_ATTEMPTED"
    /\ HasUnmatched(open.unmatched_seqs)
    /\ \E unmatched_table \in
             {FilterFeatures(open.table, FastaIds(open.unmatched_seqs))} :
          /\ table' = unmatched_table
          /\ table0' = unmatched_table
    /\ op' = "de_novo"
    /\ pc' = "start"
    /\ sequences' = open.unmatched_seqs
    /\ refs' = <<>> /\ sized' = <<>> /\ uc' = <<>> /\ notmatched' = <<>>
    /\ unmatched_seqs' = <<>> /\ out_seqs' = <<>> /\ assign' = <<>>
    /\ conn' = EmptyConn /\ out_table' = EmptyTable
    /\ open' = [open EXCEPT
                   !.stage = "DENOVO",
                   !.calls = @ \o <<"filter_features",
                                    "cluster_features_de_novo">>]
    /\ UNCHANGED <<error, cmds>>

\* lines 345-347: cluster_features_de_novo has returned or raised
ReturnFromDeNovo ==
    /\ UNCHANGED <<temps, chimera, parse, stats>>
    /\ op = "de_novo" /\ open.stage = "DENOVO"
    /\ pc \in {"done", "raised"}
    /\ op' = "open_reference"
    /\ IF pc = "done"
       THEN /\ open' = [open EXCEPT !.stage = "DENOVO_ATTEMPTED",
                                    !.de_novo_table = out_table,
                                    !.de_novo_seqs = out_seqs]
            /\ pc' = "running"
       ELSE /\ open' = [open EXCEPT !.stage = "RAISED"]
            /\ pc' = "raised"
    /\ UNCHANGED <<table0, table, sequences, refs, sized, uc, notmatched,
                   unmatched_seqs, conn, out_table, out_seqs, error, cmds,
                   assign>>

\* lines 349-362: the results of the two stages are merged
Merge ==
    /\ UNCHANGED <<temps, chimera, parse, stats>>
    /\ op = "open_reference" /\ open.stage = "DENOVO_ATTEMPTED"
    /\ LET merged_reference_seqs ==
               MergeSeqs(open.reference_sequences, open.de_novo_seqs)
           merged == MergeTables(open.closed_ref_table, open.de_novo_table)
           merged_rep_seqs == MergeSeqs(open.rep_seqs, open.de_novo_seqs)
       IN IF open.skipped_closed_ref
          THEN /\ open' = [open EXCEPT
                              !.stage = "MERGED",
                              !.calls = Append(@, "merge_seqs"),
                              !.outputs = <<open.de_novo_table,
                                            open.de_novo_seqs,
                                            merged_reference_seqs>>]
               /\ UNCHANGED <<pc, error>>
          ELSE IF merged.error # NoError
          THEN /\ open' = [open EXCEPT !.stage = "RAISED",
                                       !.calls = Append(@, "merge")]
               /\ error' = merged.error
               /\ pc' = "raised"
          ELSE /\ open' = [open EXCEPT
                              !.stage = "MERGED",
                              !.calls = @ \o <<"merge", "merge_seqs",
                                               "merge_seqs">>,
                              !.outputs = <<merged.table, merged_rep_seqs,
                                            merged_reference_seqs>>]
               /\ UNCHANGED <<pc, error>>
    /\ UNCHANGED <<op, table0, table, sequences, refs, sized, uc, notmatched,
                   unmatched_seqs, conn, out_table, out_seqs, cmds, assign>>

\* lines 363-365: no unmatched sequence, de novo is skipped; rep_seqs is
\* not bound when the closed-reference step raised
SkipDeNovo ==
    /\ UNCHANGED <<temps, chimera, parse, stats>>
    /\ op = "open_reference" /\ open.stage = "CLOSED_REF_ATTEMPTED"
    /\ ~HasUnmatched(open.unmatched_seqs)
    /\ IF open.skipped_closed_ref
       THEN /\ open' = [open EXCEPT !.stage = "RAISED"]
            /\ error' = Err("UnboundLocalError", "rep_seqs", {})
            /\ pc' = "raised"
       ELSE /\ open' = [open EXCEPT
                           !.stage = "DONE",
                           !.outputs = <<open.closed_ref_table, open.rep_seqs,
                                         open.reference_sequences>>]
            /\ pc' = "done"
            /\ UNCHANGED error
    /\ UNCHANGED <<op, table0, table, sequences, refs, sized, uc, notmatched,
                   unmatched_seqs, conn, out_table, out_seqs, cmds, assign>>

\* line 365: return outputs
ReturnOutputs ==
    /\ UNCHANGED <<temps, chimera, parse, stats>>
    /\ op = "open_reference" /\ open.stage = "MERGED"
    /\ open' = [open EXCEPT !.stage = "DONE"]
    /\ pc' = "done"
    /\ UNCHANGED <<op, table0, table, sequences, refs, sized, uc, notmatched,
                   unmatched_seqs, conn, out_table, out_seqs, error, cmds,
                   assign>>

NextOpen ==
    \/ CallClosedReference
    \/ ReturnFromClosedReference
    \/ CallDeNovo
    \/ ReturnFromDeNovo
    \/ Merge
    \/ SkipDeNovo
    \/ ReturnOutputs
    \/ NextCluster

SpecOpen == InitOpen /\ [][NextOpen]_vars

\* the inputs of the runs whose termination is checked: up to two features,
\* each observed in the first sample only
InitOpenFair ==
    /\ InitOpen
    /\ DOMAIN open.table \subseteq {<<"a">>, <<"b">>}
    /\ \A r \in DOMAIN open.table :
          \A s \in Samples : open.table[r][s] > 0 <=> s = "s1"
    /\ FastaIds(open.sequences) \subseteq {<<"a">>, <<"b">>}

\* the pipeline runs in one thread and every call it makes returns or
\* raises: a step that can be taken is taken
SpecOpenFair == InitOpenFair /\ [][NextOpen]_vars /\ WF_vars(NextOpen)

-----------------------------------------------------------------------------
(* Claims about cluster_features_open_reference *)

\* the step in which the pipeline takes over from the action it called,
\* that action having raised
CalleeRaised(callee, stage) ==
    /\ op = callee /\ open.stage = stage /\ pc = "raised"
    /\ op' = "open_reference"

Propagated ==
    /\ open'.stage = "RAISED" /\ pc' = "raised"
    /\ error' = error /\ open'.outputs = <<>>

\* C12: the pipeline swallows the no-matches error of its closed-reference
\* step and nothing else: an error of that step that comes from anything
\* but an empty mapping (id check, tool failure, malformed output), and any
\* error of the de novo step, reaches the caller and no output is returned.
C12_SwallowsOnlyNoMatches ==
    [][/\ CalleeRaised("closed_reference", "CLOSED_REF") =>
             IF error = NoMatches /\ NoSeedOrHit(uc)
             THEN open'.stage = "CLOSED_REF_ATTEMPTED" /\ error' = NoError
             ELSE Propagated
       /\ CalleeRaised("de_novo", "DENOVO") => Propagated]_vars

\* what cluster_features_de_novo(sequences=input_seqs, table=t) returns
\* when the tool writes the membership file written, its centroids being
\* the seeds in the order of their records (lines 181-208)
DeNovoResult(t, input_seqs, written) ==
    LET fasta == FastaWithSizes(input_seqs, t)
        parsed == UcToSqlite(written)
        co == CollapseOutcome(t, parsed.conn)
        IsSeed(line) == line[1] = <<"S">>
        seeds == SelectSeq(written, IsSeed)
    IN [sized |-> fasta.file,
        error |-> IF fasta.error # NoError THEN fasta.error
                  ELSE IF parsed.error # NoError THEN parsed.error
                  ELSE co.error,
        table |-> co.table,
        seqs |-> [k \in DOMAIN seeds |->
                     [id |-> XSize(seeds[k][QueryCol + 1]),
                      seq |-> SequenceString(fasta.file,
                                             seeds[k][QueryCol + 1])]]]

OpenDone == op = "open_reference" /\ open.stage = "DONE"

\* C13: when the closed-reference step raised no-matches, the clustered
\* table and the clustered sequences the pipeline returns are those that
\* cluster_features_de_novo returns for the original table and sequences
\* (the tool, given the same sized FASTA, writing the same membership file).
C13_FallbackEqualsDeNovo ==
    (OpenDone /\ open.skipped_closed_ref) =>
        LET direct == DeNovoResult(open.table, open.sequences, uc)
        IN /\ direct.sized = sized
           /\ direct.error = NoError
           /\ open.outputs[1] = direct.table
           /\ open.outputs[2] = direct.seqs

BothStagesRan ==
    /\ op = "open_reference"
    /\ ~open.skipped_closed_ref
    /\ Len(open.unmatched_seqs) > 0
    /\ open.stage \in {"MERGED", "DONE"}

\* C14: the table returned is the de novo table when closed-reference was
\* skipped, the closed-reference table when no sequence was unmatched, and
\* else the union of the rows of the two tables, every cell as it was; a
\* row id that both tables have makes the pipeline fail with an error, and
\* no merged table exists.
C14_TableIsUnionOfStages ==
    /\ (OpenDone /\ open.skipped_closed_ref) =>
           open.outputs[1] = open.de_novo_table
    /\ (OpenDone /\ ~open.skipped_closed_ref /\ Len(open.unmatched_seqs) = 0) =>
           open.outputs[1] = open.closed_ref_table
    /\ BothStagesRan =>
           LET merged == open.outputs[1]
               closed == open.closed_ref_table
               novo == open.de_novo_table
           IN /\ (DOMAIN closed) \cap (DOMAIN novo) = {}
              /\ DOMAIN merged = (DOMAIN closed) \cup (DOMAIN novo)
              /\ \A r \in DOMAIN closed : merged[r] = closed[r]
              /\ \A r \in DOMAIN novo : \A s \in SampleIds(merged) :
                    merged[r][s] = CellOrZero(novo, r, s)
    /\ (op = "open_reference" /\ open.stage = "RAISED"
        /\ open.calls # <<>> /\ open.calls[Len(open.calls)] = "merge") =>
           /\ (DOMAIN open.closed_ref_table) \cap (DOMAIN open.de_novo_table) # {}
           /\ error.kind = "ValueError"
           /\ open.outputs = <<>>

\* both stages produced rows, two of them from closed-reference, and the
\* merged table was returned
C14_Witness ==
    /\ OpenDone /\ BothStagesRan
    /\ Cardinality(DOMAIN open.closed_ref_table) = 2
    /\ DOMAIN open.de_novo_table # {}
    /\ Cardinality(DOMAIN open.outputs[1]) = 3

RecordsOf(fasta) == {fasta[i] : i \in DOMAIN fasta}

\* C15: the new reference set is the original reference set plus the de
\* novo representative sequences whenever de novo ran, and the original
\* reference set when de novo was skipped; representatives of the
\* closed-reference step are never added.
C15_NewReferencesAreRefsPlusDeNovo ==
    /\ (OpenDone /\ Len(open.unmatched_seqs) > 0) =>
           RecordsOf(open.outputs[3]) =
               RecordsOf(open.reference_sequences)
                   \cup RecordsOf(open.de_novo_seqs)
    /\ (OpenDone /\ Len(open.unmatched_seqs) = 0) =>
           open.outputs[3] = open.reference_sequences

\* the orders in which the pipeline can have called the actions it uses
CallOrders ==
    { <<"cluster_features_closed_reference", "filter_features",
        "cluster_features_de_novo", "merge_seqs">>,
      <<"cluster_features_closed_reference", "filter_features",
        "cluster_features_de_novo", "merge", "merge_seqs", "merge_seqs">> }

IsPrefix(p, q) == Len(p) <= Len(q) /\ SubSeq(q, 1, Len(p)) = p

StageOrder ==
    { <<"START", "CLOSED_REF">>,
      <<"CLOSED_REF", "CLOSED_REF_ATTEMPTED">>, <<"CLOSED_REF", "RAISED">>,
      <<"CLOSED_REF_ATTEMPTED", "DENOVO">>, <<"CLOSED_REF_ATTEMPTED", "DONE">>,
      <<"CLOSED_REF_ATTEMPTED", "RAISED">>,
      <<"DENOVO", "DENOVO_ATTEMPTED">>, <<"DENOVO", "RAISED">>,
      <<"DENOVO_ATTEMPTED", "MERGED">>, <<"DENOVO_ATTEMPTED", "RAISED">>,
      <<"MERGED", "DONE">> }

DeNovoCalled ==
    \E i \in DOMAIN open.calls : open.calls[i] = "cluster_features_de_novo"

\* the calls made so far are in order: closed-reference first and once, de
\* novo at most once and only when unmatched sequences remain, the merges
\* after de novo has returned
CallsInOrder ==
    /\ \E q \in CallOrders : IsPrefix(open.calls, q)
    /\ open.stage = "START" <=> open.calls = <<>>
    /\ DeNovoCalled =>
           /\ Len(open.unmatched_seqs) > 0
           /\ open.stage \notin {"START", "CLOSED_REF", "CLOSED_REF_ATTEMPTED"}
    /\ Len(open.calls) > 3 => open.stage \in {"MERGED", "DONE", "RAISED"}
    /\ open.stage = "DONE" =>
           /\ Len(open.outputs) = 3
           /\ DeNovoCalled <=> Len(open.unmatched_seqs) > 0

\* C16: every run goes START, CLOSED_REF_ATTEMPTED, then DENOVO_ATTEMPTED
\* and MERGED if and only if unmatched sequences remain, then DONE;
\* closed-reference is attempted once and first, de novo at most once, the
\* merge follows de novo; and a run in which nothing raises an error that
\* is not caught reaches DONE and returns three outputs.
C16_StagesInOrder ==
    /\ [](op \in {"open_reference", "closed_reference", "de_novo"}
             => CallsInOrder)
    /\ [][open'.stage # open.stage
             => <<open.stage, open'.stage>> \in StageOrder]_vars
    /\ [][open.stage = "CLOSED_REF" /\ open'.stage = "CLOSED_REF_ATTEMPTED"
             => /\ op = "closed_reference"
                /\ pc = "done" \/ (pc = "raised" /\ error = NoMatches)]_vars
    /\ (open.stage = "START") ~> (open.stage \in {"DONE", "RAISED"})

\* the run went through every stage and returned
C16_Witness ==
    /\ open.stage = "DONE"
    /\ Len(open.calls) = 6
    /\ Len(open.outputs) = 3

-----------------------------------------------------------------------------
(* The chimera operations: _uchime_ref and _uchime_denovo (_chimera.py) *)

\* str.rsplit(';', 1)[0]: the text before the last ';', all of it if none
RSplitSemi(s) ==
    LET at == {i \in DOMAIN s : s[i] = Semi[1]}
    IN IF at = {} THEN s
       ELSE SubSeq(s, 1, (CHOOSE i \in at : \A j \in at : j <= i) - 1)

InitChimera ==
    /\ op \in {"uchime_ref", "uchime_denovo"}
    /\ pc = "start"
    /\ table \in {EmptyTable} \cup TablesOver(FeatureIds, {0, MaxCell})
    /\ table0 = table
    /\ sequences \in FastaFiles(FeatureIds)
    /\ refs = IF op = "uchime_ref" THEN RefFasta ELSE <<>>
    /\ sized = <<>> /\ uc = <<>> /\ notmatched = <<>>
    /\ unmatched_seqs = <<>> /\ out_seqs = <<>> /\ cmds = <<>>
    /\ conn = EmptyConn /\ out_table = EmptyTable
    /\ assign = <<>> /\ open = NoFrame
    /\ temps = {} /\ chimera = NoChimera
    /\ parse = NoParse /\ stats = NoStats
    /\ error = NoError

\* --uchimeout: one line for every query
UchimeOut(queries) == [k \in DOMAIN queries |-> [query |-> queries[k].id]]

\* the files the tool writes for the queries in the order it takes them, c
\* of them being chimeras and n non-chimeras: --xsize takes the size
\* annotation off the non-chimeras and, depending on the tool's version,
\* off the chimeras and off the labels of --uchimeout or not
UchimeFiles(queries, c, n, stripped) ==
    [temp_chimeras |-> IF stripped THEN StripSizes(Records(queries, c))
                       ELSE Records(queries, c),
     chimeras |-> <<>>,
     nonchimeras |-> StripSizes(Records(queries, n)),
     uchime_stats |-> UchimeOut(IF stripped THEN StripSizes(queries)
                               ELSE queries)]

\* run_command(['vsearch', '--uchime_ref' or '--uchime_denovo', ...]): the
\* tool fails, or takes the queries by decreasing abundance and sorts each
\* into chimeras, non-chimeras or neither (borderline)
RunUchime ==
    /\ op \in {"uchime_ref", "uchime_denovo"} /\ pc = "sized"
    /\ cmds' = Append(cmds, op)
    /\ \/ /\ error' = ToolFailed(op)
          /\ pc' = "raised"
          /\ temps' = CloseTemps(temps)
          /\ UNCHANGED chimera
       \/ \E o \in BySizeOrders(sized) :
          \E c \in SUBSET DOMAIN sized :
          \E n \in SUBSET (DOMAIN sized \ c) :
          \E stripped \in BOOLEAN :
             /\ chimera' =
                    UchimeFiles(SubSeq(Reordered(sized, o), 1, Len(sized)),
                                c, n, stripped)
             /\ pc' = "detected"
             /\ UNCHANGED <<error, temps>>
    /\ UNCHANGED <<op, table0, table, sequences, refs, sized, uc, notmatched,
                   unmatched_seqs, conn, out_table, out_seqs, assign, open,
                   parse, stats>>

\* _fix_chimera_ids(temp_chimeras, chimeras), then both with blocks end
FixChimeraIds ==
    /\ op \in {"uchime_ref", "uchime_denovo"} /\ pc = "detected"
    /\ chimera' =
         [chimera EXCEPT !.chimeras =
            [i \in DOMAIN chimera.temp_chimeras |->
                [id |-> RSplitSemi(chimera.temp_chimeras[i].id),
                 seq |-> chimera.temp_chimeras[i].seq]]]
    /\ pc' = "done"
    /\ temps' = CloseTemps(temps)
    /\ UNCHANGED <<op, table0, table, sequences, refs, sized, uc, notmatched,
                   unmatched_seqs, conn, out_table, out_seqs, error, cmds,
                   assign, open, parse, stats>>

InitTemps == InitCluster \/ InitChimera

NextTemps ==
    \/ NextCluster
    \/ RunUchime
    \/ FixChimeraIds

SpecTemps == InitTemps /\ [][NextTemps]_vars

\* the operation has returned or raised
Exited == pc \in {"done", "raised"}

\* C17: once cluster_features_de_novo, cluster_features_closed_reference or
\* a chimera operation has returned or raised, none of the temporary files
\* it created exists, whatever the exit path; and the files exist while the
\* external tool runs.
C17_TempFilesDeletedOnExit ==
    /\ Exited => temps = {}
    /\ pc \in {"sized", "searched", "sorted", "clustered", "detected"}
          => temps = TempFiles(op)

\* an external tool failed after the temporary files were created
C17_Witness ==
    /\ op \in {"closed_reference", "uchime_ref"}
    /\ pc = "raised" /\ error.kind = "CalledProcessError"
    /\ Len(cmds) >= 1 /\ sized # <<>>
    /\ temps = {}

-----------------------------------------------------------------------------
(* Failure of the external tool *)

\* subprocess.run(cmd, check=True) has raised CalledProcessError
ToolFailure == error.kind = "CalledProcessError"

\* C18: a non-zero exit status of the external tool raises at once: the
\* failed command is the last one run and no command is run twice, nothing
\* is parsed, filtered, collapsed or written after it, the open-reference
\* pipeline does not fall back to de novo clustering, no output is returned,
\* and the error stays as raised up to the caller.
C18_ToolFailureIsFatal ==
    /\ [](ToolFailure =>
            /\ pc = "raised"
            /\ cmds # <<>> /\ cmds[Len(cmds)] = error.what
            /\ \A i, j \in DOMAIN cmds : cmds[i] = cmds[j] => i = j
            /\ conn = EmptyConn /\ table = table0
            /\ out_table = EmptyTable /\ out_seqs = <<>>
            /\ open.outputs = <<>>
            /\ error.what = "usearch_global" => unmatched_seqs = <<>>
            /\ error.what \in {"usearch_global", "sortbysize"}
                  => ~DeNovoCalled)
    /\ [][ToolFailure => /\ error' = error
                         /\ cmds' = cmds
                         /\ open'.calls = open.calls
                         /\ pc' = "raised"]_vars

\* the second invocation of the closed-reference step failed and the
\* pipeline handed the error to its caller
C18_Witness ==
    /\ op = "open_reference" /\ open.stage = "RAISED"
    /\ ToolFailure /\ error.what = "sortbysize"
    /\ cmds = <<"usearch_global", "sortbysize">>

-----------------------------------------------------------------------------
(* The clusters of cluster_features_de_novo *)

DeNovoDone == op = "de_novo" /\ pc = "done"

\* the features the membership file puts in cluster c
Members(c) == {f \in ConnIds(conn) : IdToCentroid(conn)[f] = c}

\* the clustered sequences hold cluster c with the sequence of feature c
RepresentedByItself(c) ==
    /\ c \in Members(c)
    /\ \E i \in DOMAIN out_seqs :
          /\ out_seqs[i].id = c
          /\ out_seqs[i].seq = SequenceString(sequences, c)

            /\ \A m \in Members(c) \ {c} :
                  \/ RowSum(table0, c) > RowSum(table0, m)
                  \/ RowSum(table0, c) = RowSum(table0, m) /\ TextLess(c, m)

-----------------------------------------------------------------------------
(* Rows the mapping does not cover *)

\* the rows of the table handed to the collapse that the mapping lacks
UnmappedRows == DOMAIN table \ ConnIds(conn)

\* C20: when the table handed to the collapse step has a row whose feature
\* id is not in the feature-to-cluster mapping, the step ends with an error
\* (KeyError from collapse_f, ValueError when the mapping is empty) and
\* gives no table: the row is neither dropped nor kept under its own id.
C20_UnmappedRowIsAnError ==
    (op = "collapse" /\ pc = "done" /\ UnmappedRows # {}) =>
        /\ error.kind = IF Len(conn) = 0 THEN "ValueError" ELSE "KeyError"
        /\ out_table = EmptyTable

\* a mapping that covers some rows of the table and lacks another
C20_Witness ==
    /\ op = "collapse" /\ pc = "done"
    /\ UnmappedRows # {} /\ UnmappedRows # DOMAIN table
    /\ error.kind = "KeyError"

-----------------------------------------------------------------------------
(* _parse_uc (_cluster_sequences.py) *)

Underscore == "_"

\* str.split()[0]: the text up to the first whitespace after the leading
\* whitespace; <<>> stands for the IndexError of a field without any token
RECURSIVE FirstToken(_)
FirstToken(field) ==
    IF field = <<>> THEN <<>>
    ELSE IF Ord(Head(field)) \in StrSpace THEN FirstToken(Tail(field))
    ELSE LET stop == {i \in DOMAIN field : Ord(field[i]) \in StrSpace}
         IN IF stop = {} THEN field
            ELSE SubSeq(field, 1, (CHOOSE i \in stop : \A j \in stop : i <= j) - 1)

\* str.index(ch), 0 for its ValueError (not the code, which calls rindex)
IndexOfFirst(text, ch) ==
    LET at == {i \in DOMAIN text : text[i] = ch}
    IN IF at = {} THEN 0 ELSE CHOOSE i \in at : \A j \in at : i <= j

\* str.rindex(ch), 0 for its ValueError
RIndex(text, ch) ==
    LET at == {i \in DOMAIN text : text[i] = ch}
    IN IF at = {} THEN 0 ELSE CHOOSE i \in at : \A j \in at : j <= i

\* line_types = set('HSL')
LineTypes == { <<"H">>, <<"S">>, <<"L">> }

\* the line types whose records are counted, were L among them
\* (not the code)
CountedLineTypesWithL == { <<"H">>, <<"S">>, <<"L">> }

\* line_type == 'H' or line_type == 'S'
CountedLineTypes == { <<"H">>, <<"S">> }

\* the position of id in ids, appending it when it is new
Enrol(ids, id) ==
    IF \E i \in DOMAIN ids : ids[i] = id THEN ids ELSE Append(ids, id)

\* the index of id in ids (counted from 1 here, from 0 in the code)
PositionIn(ids, id) == CHOOSE i \in DOMAIN ids : ids[i] = id

\* data[(observation_idx, sample_idx)] += 1 on a defaultdict(int)
Increment(data, key) ==
    IF key \in DOMAIN data THEN [data EXCEPT ![key] = @ + 1]
    ELSE [k \in DOMAIN data \cup {key} |->
             IF k = key THEN 1 ELSE data[k]]

\* the body of the loop of _parse_uc for one stripped line, given as its
\* fields (lines 61-112); st holds observation_ids, sample_ids, data and the
\* exception raised
ParseUcFields(st, line) ==
    IF line = BlankLine \/ line[1] \notin LineTypes THEN st
    ELSE IF Len(line) < TargetCol + 1
    THEN [st EXCEPT !.error = Err("IndexError", "fields", {})]
    ELSE IF FirstToken(line[TargetCol + 1]) = <<>>
    THEN [st EXCEPT !.error = Err("IndexError", "target", {})]
    ELSE IF FirstToken(line[QueryCol + 1]) = <<>>
    THEN [st EXCEPT !.error = Err("IndexError", "query", {})]
    ELSE LET query_id == FirstToken(line[QueryCol + 1])
             observation_id ==
                 IF FirstToken(line[TargetCol + 1]) = <<"*">> THEN query_id
                 ELSE FirstToken(line[TargetCol + 1])
             observation_ids == Enrol(st.observation_ids, observation_id)
             underscore_index == RIndex(query_id, Underscore)
             sample_id == SubSeq(query_id, 1, underscore_index - 1)
             sample_ids == Enrol(st.sample_ids, sample_id)
         IN IF line[1] \in CountedLineTypes
            THEN IF underscore_index = 0
                 THEN [st EXCEPT !.observation_ids = observation_ids,
                                 !.error = Err("ValueError", "underscore", {})]
                 ELSE [st EXCEPT
                         !.observation_ids = observation_ids,
                         !.sample_ids = sample_ids,
                         !.data = Increment(@,
                                    <<PositionIn(observation_ids, observation_id),
                                      PositionIn(sample_ids, sample_id)>>)]
            ELSE [st EXCEPT !.observation_ids = observation_ids]

\* the body of the loop of _parse_uc for one line of the file:
\* line = line.strip(), then the fields of what is left
ParseUcRecord(st, raw) ==
    CHOOSE r \in {ParseUcFields(st, line) : line \in {StripLine(raw, StrSpace)}} :
        TRUE

\* for line in fh: the lines in file order, stopping at the first exception
RECURSIVE ParseUcFrom(_, _, _)
ParseUcFrom(lines, i, st) ==
    IF i > Len(lines) \/ st.error # NoError THEN st
    ELSE ParseUcFrom(lines, i + 1, ParseUcRecord(st, lines[i]))

\* _parse_uc(fh)
ParseUc(lines) ==
    ParseUcFrom(lines, 1, [observation_ids |-> <<>>, sample_ids |-> <<>>,
                           data |-> <<>>, error |-> NoError])

MaxParseLen == 3

\* lines of a uc file of dereplication: seeds, hits, library seeds, a
\* cluster record, a comment, a blank line, query ids with several
\* underscores, with none, with a description after a space, and a line cut
\* short
ParseUcLines ==
    { UcLine(<<"S">>, <<"s", "_", "1">>, <<"*">>),
      UcLine(<<"H">>, <<"s", "_", "2">>, <<"s", "_", "1">>),
      UcLine(<<"H">>, <<"t", "_", "u", "_", "3">>, <<"s", "_", "1">>),
      UcLine(<<"S">>, <<"t", "_", "u", "_", "3">>, <<"*">>),
      UcLine(<<"H">>, <<"s", "_", "2", " ", "x", "_", "y">>, <<"l">>),
      UcLine(<<"L">>, <<"l">>, <<"*">>),
      UcLine(<<"L">>, <<"l", "_", "1">>, <<"*">>),
      UcLine(<<"S">>, <<"n">>, <<"*">>),
      UcLine(<<"C">>, <<"s", "_", "1">>, <<"*">>),
      BlankLine,
      << <<"#", "c">> >>,
      <<<<"H">>, <<"*">>, <<"*">>>> }

ParseUcFiles == UNION { [1..n -> ParseUcLines] : n \in 0..MaxParseLen }

InitParseUc ==
    /\ op = "parse_uc"
    /\ pc = "start"
    /\ uc \in ParseUcFiles
    /\ table0 = EmptyTable /\ table = EmptyTable /\ out_table = EmptyTable
    /\ conn = EmptyConn
    /\ error = NoError
    /\ sequences = <<>> /\ refs = <<>> /\ sized = <<>>
    /\ notmatched = <<>> /\ unmatched_seqs = <<>> /\ out_seqs = <<>>
    /\ cmds = <<>> /\ assign = <<>> /\ open = NoFrame
    /\ temps = {} /\ chimera = NoChimera
    /\ parse = NoParse /\ stats = NoStats

\* _parse_uc(fh), called on a file of its own or by dereplicate_sequences
\* on the file the tool wrote (line 136); the with block of
\* dereplicate_sequences ends with the call, by return or by exception
ParseUcStep ==
    /\ \/ op = "parse_uc" /\ pc = "start"
       \/ op = "dereplicate_sequences" /\ pc = "dereplicated"
    /\ \E r \in {ParseUc(uc)} :
          /\ error' = r.error
          /\ parse' = IF r.error = NoError
                      THEN [observation_ids |-> r.observation_ids,
                            sample_ids |-> r.sample_ids,
                            data |-> r.data]
                      ELSE NoParse
          /\ pc' = IF r.error # NoError THEN "raised"
                   ELSE IF op = "parse_uc" THEN "done" ELSE "parsed"
    /\ temps' = CloseTemps(temps)
    /\ UNCHANGED <<op, table0, table, sequences, refs, sized, uc, notmatched,
                   unmatched_seqs, conn, out_table, out_seqs, cmds, assign,
                   open, chimera, stats>>

MaxDerepLen == 3

\* labels of the reads of a demultiplexed seqs.fna, <sample id>_<number>:
\* two reads of one sample, a sample id with an underscore of its own, and a
\* label without underscore
DerepIds ==
    { <<"s", "_", "1">>, <<"s", "_", "2">>, <<"t", "_", "u", "_", "3">>,
      <<"n">> }

\* the reads: one is a prefix of another
DerepSeqs == { <<"A">>, <<"A", "C">>, <<"G">> }

\* seqs.fna files of one to MaxDerepLen reads under different labels
DerepInputs ==
    UNION { {[i \in DOMAIN p |-> [id |-> p[i], seq |-> q[i]]] :
                p \in Arrangements(D),
                q \in [1..Cardinality(D) -> DerepSeqs]} :
            D \in {E \in SUBSET DerepIds :
                      Cardinality(E) \in 1..MaxDerepLen} }

InitDerep ==
    /\ op = "dereplicate_sequences"
    /\ pc = "start"
    /\ sequences \in DerepInputs
    /\ uc = <<>>
    /\ table0 = EmptyTable /\ table = EmptyTable /\ out_table = EmptyTable
    /\ conn = EmptyConn
    /\ error = NoError
    /\ refs = <<>> /\ sized = <<>>
    /\ notmatched = <<>> /\ unmatched_seqs = <<>> /\ out_seqs = <<>>
    /\ cmds = <<>> /\ assign = <<>> /\ open = NoFrame
    /\ temps = {} /\ chimera = NoChimera
    /\ parse = NoParse /\ stats = NoStats

\* --relabel_sha1: the label of a dereplicated sequence is the digest of the
\* sequence, the same for equal sequences and different for different ones
Sha1(seq) == <<"#">> \o seq

\* the tool merges the read at i into the read at j: they are the same
\* sequence or, with --derep_prefix, the first is a prefix of the second
Merges(reads, i, j, derep_prefix) ==
    IF derep_prefix THEN IsPrefix(reads[i].seq, reads[j].seq)
    ELSE reads[i].seq = reads[j].seq

\* the ways the tool may dereplicate: a[i] is the read kept for the read at
\* i; every read is merged into the one kept for it, and no read kept could
\* be merged into another read kept
DerepSeeds(reads, derep_prefix) ==
    {a \in [DOMAIN reads -> DOMAIN reads] :
        /\ \A i \in DOMAIN reads :
              a[a[i]] = a[i] /\ Merges(reads, i, a[i], derep_prefix)
        /\ \A i, j \in DOMAIN reads :
              (a[i] = i /\ a[j] = j /\ i # j)
                  => ~Merges(reads, i, j, derep_prefix)}

\* the number of reads merged into the read at k, itself included
Abundance(a, k) == Cardinality({i \in DOMAIN a : a[i] = k})

\* the orders in which the tool reports the reads: cluster by cluster, by
\* decreasing abundance, the read kept at the head of its cluster
DerepOrders(reads, a) ==
    {p \in Arrangements(DOMAIN reads) :
        /\ \A k \in DOMAIN p :
              a[p[k]] = p[k] \/ (k > 1 /\ a[p[k - 1]] = a[p[k]])
        /\ \A x, y \in DOMAIN p :
              x < y => Abundance(a, a[p[x]]) >= Abundance(a, a[p[y]])}

\* --output with --relabel_sha1 --relabel_keep: a record for each read
\* kept, its header the digest followed by the read's label, which skbio
\* reads as the id and the description
DereplicatedFasta(kept) ==
    [k \in DOMAIN kept |->
        [id |-> Sha1(kept[k].seq), description |-> kept[k].id,
         seq |-> kept[k].seq]]

\* the files of --uc and --output for the reads in the order of the report,
\* seed giving the place of the read kept for each; a read's label is what
\* the uc file names it by
DerepFiles(queries, seed) ==
    [uc |-> ClusterSizeUc(queries, seed),
     output |-> DereplicatedFasta(
                    Records(queries, {k \in DOMAIN seed : seed[k] = k}))]

\* dereplicate_sequences, lines 119-135: NamedTemporaryFile, then
\* run_command(['vsearch', '--derep_fulllength' or '--derep_prefix', ...]);
\* the tool fails, or writes the uc file and the dereplicated sequences. The
\* labels drawn carry no abundance, so that --xsize finds nothing to strip
RunDerep ==
    /\ op = "dereplicate_sequences" /\ pc = "start"
    /\ \E derep_prefix \in BOOLEAN :
       \E cmd \in {IF derep_prefix THEN "derep_prefix"
                   ELSE "derep_fulllength"} :
          /\ cmds' = Append(cmds, cmd)
          /\ \/ /\ error' = ToolFailed(cmd)
                /\ pc' = "raised"
                /\ temps' = CloseTemps(TempFiles(op))
                /\ UNCHANGED <<uc, out_seqs, assign>>
             \/ \E a \in DerepSeeds(sequences, derep_prefix) :
                \E p \in DerepOrders(sequences, a) :
                \E files \in {DerepFiles(Reordered(sequences, p),
                                  [k \in DOMAIN p |-> PlaceIn(p, a[p[k]])])} :
                   /\ assign' = a
                   /\ uc' = files.uc
                   /\ out_seqs' = files.output
                   /\ pc' = "dereplicated"
                   /\ temps' = TempFiles(op)
                   /\ UNCHANGED error
    /\ UNCHANGED <<op, table0, table, sequences, refs, sized, notmatched,
                   unmatched_seqs, conn, out_table, open, chimera, parse,
                   stats>>

\* id_map = {e.metadata['description']: e.metadata['id'] for e in ...}: a
\* description is mapped to the id of the last record that has it
IdMapKeys(fasta) == {fasta[i].description : i \in DOMAIN fasta}

IdMap(fasta, d) ==
    fasta[CHOOSE i \in DOMAIN fasta :
            /\ fasta[i].description = d
            /\ \A j \in DOMAIN fasta : fasta[j].description = d => j <= i].id

\* biom's Table.update_ids(id_map, axis='observation'), strict and in
\* place: TableException for an id that id_map lacks and for ids made equal
UpdatedIds(ids, fasta) ==
    IF \E k \in DOMAIN ids : ids[k] \notin IdMapKeys(fasta)
    THEN [ids |-> ids,
          error |-> Err("TableException", "mapping not provided",
                        {ids[k] : k \in {j \in DOMAIN ids :
                                            ids[j] \notin IdMapKeys(fasta)}})]
    ELSE IF \E j, k \in DOMAIN ids :
                j # k /\ IdMap(fasta, ids[j]) = IdMap(fasta, ids[k])
    THEN [ids |-> ids, error |-> Err("TableException", "duplicate ids", {})]
    ELSE [ids |-> [k \in DOMAIN ids |-> IdMap(fasta, ids[k])],
          error |-> NoError]

\* dereplicate_sequences, lines 137-142: the observation ids of the table,
\* the labels of the reads kept, become the digests; return
UpdateIds ==
    /\ op = "dereplicate_sequences" /\ pc = "parsed"
    /\ \E r \in {UpdatedIds(parse.observation_ids, out_seqs)} :
          /\ parse' = [parse EXCEPT !.observation_ids = r.ids]
          /\ error' = r.error
          /\ pc' = IF r.error = NoError THEN "done" ELSE "raised"
    /\ UNCHANGED <<op, table0, table, sequences, refs, sized, uc, notmatched,
                   unmatched_seqs, conn, out_table, out_seqs, cmds, assign,
                   open, temps, chimera, stats>>

InitParsing == InitParseUc \/ InitDerep

NextParseUc ==
    \/ ParseUcStep
    \/ RunDerep
    \/ UpdateIds

SpecParseUc == InitParsing /\ [][NextParseUc]_vars

-----------------------------------------------------------------------------
(* Claims about _parse_uc *)

\* _parse_uc has returned, to its caller or to dereplicate_sequences, and
\* nothing has changed its table since; or it has raised
ParseDone ==
    \/ op = "parse_uc" /\ pc = "done"
    \/ op = "dereplicate_sequences" /\ pc = "parsed"
ParseEnded ==
    \/ ParseDone
    \/ op = "parse_uc" /\ pc = "raised"
    \/ /\ op = "dereplicate_sequences" /\ pc = "raised"
       /\ ~ToolFailure /\ error.kind # "TableException"

\* the lines of the input that are seed or hit records, library seed records
IsSeedOrHitRecord(line) == line # BlankLine /\ line[1] \in {<<"S">>, <<"H">>}
IsLibraryRecord(line) == line # BlankLine /\ line[1] = <<"L">>

\* the record has its ten fields
HasAllFields(line) == Len(line) >= TargetCol + 1

QueryIdOf(line) == FirstToken(line[QueryCol + 1])

ObservationIdOf(line) ==
    IF FirstToken(line[TargetCol + 1]) = <<"*">> THEN QueryIdOf(line)
    ELSE FirstToken(line[TargetCol + 1])

HasUnderscore(text) == \E k \in DOMAIN text : text[k] = Underscore

\* x is the part of text before its last underscore
IsBeforeLastUnderscore(x, text) ==
    \E k \in DOMAIN text :
        /\ text[k] = Underscore
        /\ \A j \in (k + 1)..Len(text) : text[j] # Underscore
        /\ x = SubSeq(text, 1, k - 1)

SampleIdOf(line) ==
    CHOOSE x \in {SubSeq(QueryIdOf(line), 1, k) : k \in 0..Len(QueryIdOf(line))} :
        IsBeforeLastUnderscore(x, QueryIdOf(line))

RecordsHaveAllFields ==
    \A i \in DOMAIN uc :
        (IsSeedOrHitRecord(uc[i]) \/ IsLibraryRecord(uc[i]))
            => HasAllFields(uc[i])

\* the cell of the returned table, 0 where data has no entry
ParseCell(o, s) ==
    IF <<o, s>> \in DOMAIN parse.data THEN parse.data[<<o, s>>] ELSE 0

\* C21: the sample id of every seed or hit record is the part of its query
\* id before the last underscore; a seed or hit record without an
\* underscore in its query id ends the parse with ValueError; library seed
\* records need no underscore.
C21_SampleIdIsBeforeLastUnderscore ==
    /\ ParseDone =>
         /\ \A i \in DOMAIN uc :
               IsSeedOrHitRecord(uc[i]) =>
                  \E o \in DOMAIN parse.observation_ids :
                  \E k \in DOMAIN parse.sample_ids :
                     /\ parse.observation_ids[o] = ObservationIdOf(uc[i])
                     /\ IsBeforeLastUnderscore(parse.sample_ids[k],
                                               QueryIdOf(uc[i]))
                     /\ ParseCell(o, k) >= 1
         /\ \A k \in DOMAIN parse.sample_ids :
               \E i \in DOMAIN uc :
                  /\ IsSeedOrHitRecord(uc[i])
                  /\ IsBeforeLastUnderscore(parse.sample_ids[k],
                                            QueryIdOf(uc[i]))
    /\ (ParseEnded /\ RecordsHaveAllFields) =>
         IF \E i \in DOMAIN uc : /\ IsSeedOrHitRecord(uc[i])
                                 /\ ~HasUnderscore(QueryIdOf(uc[i]))
         THEN pc = "raised" /\ error.kind = "ValueError"
         ELSE ParseDone

\* a sample id that holds an underscore was kept whole, and a library seed
\* without underscore was accepted
C21_Witness ==
    /\ ParseDone
    /\ \E k \in DOMAIN parse.sample_ids :
          parse.sample_ids[k] = <<"t", "_", "u">>
    /\ \E i \in DOMAIN uc : /\ IsLibraryRecord(uc[i])
                            /\ ~HasUnderscore(QueryIdOf(uc[i]))

-----------------------------------------------------------------------------
(* Claims about _fasta_with_sizes and the direction of the id errors *)

\* _fasta_with_sizes has run on the operation's own arguments (de novo
\* calls it unchecked, closed-reference after its id check has passed) and
\* nothing has run since
SizedWritten ==
    /\ Clustering /\ cmds = <<>>
    /\ pc = "sized" \/ (op = "de_novo" /\ pc = "raised")

\* the positions of the input sequences whose id is no row of the table
AbsentFromTable == {i \in DOMAIN sequences : sequences[i].id \notin DOMAIN table0}

FirstAbsentFromTable == CHOOSE i \in AbsentFromTable : \A j \in AbsentFromTable : i <= j

\* C22: _fasta_with_sizes writes one record per input sequence, in input
\* order, with the id '<feature id>;size=<row sum>' and the sequence as it
\* was; it raises ValueError at the first sequence whose id the table lacks,
\* and, all records written, ValueError if the table has an id that no
\* sequence has.
C22_SizedFastaMirrorsInput ==
    SizedWritten =>
        /\ \A i \in DOMAIN sized :
              /\ i \in DOMAIN sequences
              /\ sized[i].id = sequences[i].id \o SizeSep
                                 \o Decimal(RowSum(table0, sequences[i].id))
              /\ sized[i].seq = sequences[i].seq
        /\ IF AbsentFromTable # {}
           THEN /\ pc = "raised"
                /\ error = Err("ValueError", InSequencesNotTable,
                               {sequences[FirstAbsentFromTable].id})
                /\ Len(sized) = FirstAbsentFromTable - 1
           ELSE /\ Len(sized) = Len(sequences)
                /\ IF DOMAIN table0 \subseteq FastaIds(sequences)
                   THEN pc = "sized" /\ error = NoError
                   ELSE /\ pc = "raised"
                        /\ error.kind = "ValueError"
                        /\ error.what = InTableNotSequences

\* two records were written with sizes taken from rows of different sums
C22_Witness ==
    /\ SizedWritten /\ pc = "sized"
    /\ Len(sized) >= 2
    /\ \E i, j \in DOMAIN sized :
          RowSum(table0, sequences[i].id) > RowSum(table0, sequences[j].id)

\* the table and the sequences each hold an id the other lacks
BothHaveExtra ==
    /\ Clustering
    /\ InputTableIds \ InputSequenceIds # {}
    /\ InputSequenceIds \ InputTableIds # {}

\* C23: when the table and the sequences each hold ids the other lacks, de
\* novo raises the 'present in sequences, but not in table' error naming
\* the first such sequence in file order, closed-reference the 'present in
\* table, but not in sequences' error; the other direction is not reported.
C23_DirectionReported ==
    (BothHaveExtra /\ pc # "start") =>
        /\ pc = "raised" /\ cmds = <<>>
        /\ op = "de_novo" =>
              error = Err("ValueError", InSequencesNotTable,
                          {FirstSequenceNotInTable})
        /\ op = "closed_reference" =>
              error = Err("ValueError", InTableNotSequences,
                          InputTableIds \ InputSequenceIds)

\* closed-reference raised for the table's extra id although the sequences
\* had one too
C23_Witness ==
    /\ BothHaveExtra /\ op = "closed_reference" /\ pc = "raised"
    /\ error.what = InTableNotSequences

-----------------------------------------------------------------------------
(* Claims about _uc_to_sqlite *)

\* the try block has run to its end without raising
TryDone == op = "closed_reference_try" /\ pc = "done"

\* the field ends in an abundance annotation: '<id>;size=N'
IsAnnotated(field) ==
    LET pieces == Split(field, SizeSep)
    IN /\ Len(pieces) >= 2
       /\ pieces[Len(pieces)] # <<>>
       /\ \A k \in DOMAIN pieces[Len(pieces)] : IsDigit(pieces[Len(pieces)][k])

\* the N of '<id>;size=N', as text
AnnotatedSize(field) == Split(field, SizeSep)[Len(Split(field, SizeSep))]

HasRow(row) == \E k \in DOMAIN conn : conn[k] = row

\* C24: a seed record with query '<id>;size=N' is recorded as (<id>, <id>,
\* no count), a hit record with query '<id>;size=N' and target
\* '<cid>;size=M' as (<id>, <cid>, N), for ids of any form, those holding
\* ';' included; every other line adds nothing.
C24_RecordsMappedByWholeId ==
    TryDone =>
        /\ \A i \in DOMAIN uc :
              /\ (uc[i][1] = <<"S">> /\ IsAnnotated(uc[i][QueryCol + 1])) =>
                    HasRow([feature_id |-> XSize(uc[i][QueryCol + 1]),
                            cluster_id |-> XSize(uc[i][QueryCol + 1]),
                            count |-> NoCount])
              /\ (/\ uc[i][1] = <<"H">>
                  /\ IsAnnotated(uc[i][QueryCol + 1])
                  /\ IsAnnotated(uc[i][TargetCol + 1])) =>
                    HasRow([feature_id |-> XSize(uc[i][QueryCol + 1]),
                            cluster_id |-> XSize(uc[i][TargetCol + 1]),
                            count |-> AnnotatedSize(uc[i][QueryCol + 1])])
        /\ Len(conn) = Cardinality({i \in DOMAIN uc : IsSeedOrHit(uc[i])})

\* the line is a seed or hit record that _uc_to_sqlite can read by itself
Readable(line) == IsSeedOrHit(line) /\ UcRecord(EmptyConn, line).error = NoError

\* the row _uc_to_sqlite makes of a readable record
RowOf(line) == UcRecord(EmptyConn, line).conn[1]

\* line j is the first record for a feature id that an earlier record has,
\* and every line before it can be read
FirstRepeatAt(j) ==
    /\ Readable(uc[j])
    /\ \E i \in 1..(j - 1) :
          Readable(uc[i]) /\ RowOf(uc[i]).feature_id = RowOf(uc[j]).feature_id
    /\ \A i \in 1..(j - 1) :
          /\ UcRecord(EmptyConn, uc[i]).error = NoError
          /\ \A h \in 1..(i - 1) :
                (Readable(uc[h]) /\ Readable(uc[i]))
                   => RowOf(uc[h]).feature_id # RowOf(uc[i]).feature_id

\* C25: the mapping never holds two rows for one feature id; a second seed
\* or hit record for a feature id already recorded ends the parse with an
\* error, the earlier membership standing as it was.
C25_OneClusterPerFeature ==
    (op = "closed_reference_try" /\ pc \in {"done", "raised"}) =>
        /\ \A j, k \in DOMAIN conn :
              conn[j].feature_id = conn[k].feature_id => j = k
        /\ \A j \in DOMAIN uc :
              FirstRepeatAt(j) =>
                 /\ pc = "raised" /\ error.kind = "IntegrityError"
                 /\ \A i \in 1..(j - 1) : Readable(uc[i]) => HasRow(RowOf(uc[i]))
                 /\ Len(conn) = Cardinality({i \in 1..(j - 1) : Readable(uc[i])})

\* a hit record came for a feature already recorded as a seed
C25_Witness ==
    /\ op = "closed_reference_try" /\ pc = "raised"
    /\ error.kind = "IntegrityError"
    /\ Len(uc) = 2 /\ uc[1][1] = <<"S">> /\ uc[2][1] = <<"H">>
    /\ Len(conn) = 1

-----------------------------------------------------------------------------
(* The table _parse_uc returns *)

\* the records that name an observation: seeds, hits and library seeds
NamesObservation(line) == IsSeedOrHitRecord(line) \/ IsLibraryRecord(line)

\* ids holds each id once, in the order in which the lines first give it;
\* given maps the position of a line to the id it gives
InOrderOfFirstOccurrence(ids, given) ==
    /\ \A a, b \in DOMAIN ids : ids[a] = ids[b] => a = b
    /\ {ids[a] : a \in DOMAIN ids} = {given[i] : i \in DOMAIN given}
    /\ \A a, b \in DOMAIN ids :
          a < b =>
             \E i \in DOMAIN given :
                /\ given[i] = ids[a]
                /\ \A j \in DOMAIN given : given[j] = ids[b] => i < j

\* C26: each cell of the table _parse_uc returns is the number of seed and
\* hit records with that observation id and that sample id, so that the
\* cells add up to the number of seed and hit records; a library seed
\* record makes a row and adds to no cell; observation ids and sample ids
\* are in order of first occurrence; without any S, H or L record the table
\* is empty.
C26_CellsCountRecords ==
    ParseDone =>
        /\ \A o \in DOMAIN parse.observation_ids :
           \A k \in DOMAIN parse.sample_ids :
              ParseCell(o, k) =
                 Cardinality({i \in DOMAIN uc :
                     /\ IsSeedOrHitRecord(uc[i])
                     /\ ObservationIdOf(uc[i]) = parse.observation_ids[o]
                     /\ SampleIdOf(uc[i]) = parse.sample_ids[k]})
        /\ DOMAIN parse.data \subseteq
              (DOMAIN parse.observation_ids) \X (DOMAIN parse.sample_ids)
        /\ SumOver(parse.data, DOMAIN parse.data) =
              Cardinality({i \in DOMAIN uc : IsSeedOrHitRecord(uc[i])})
        /\ InOrderOfFirstOccurrence(parse.observation_ids,
              [i \in {j \in DOMAIN uc : NamesObservation(uc[j])} |->
                  ObservationIdOf(uc[i])])
        /\ InOrderOfFirstOccurrence(parse.sample_ids,
              [i \in {j \in DOMAIN uc : IsSeedOrHitRecord(uc[j])} |->
                  SampleIdOf(uc[i])])
        /\ (\A i \in DOMAIN uc : ~NamesObservation(uc[i])) => parse = NoParse

\* a library seed made a row that only a hit counts in, next to a cell that
\* counts two records
C26_Witness ==
    /\ ParseDone
    /\ \E i \in DOMAIN uc : IsLibraryRecord(uc[i])
    /\ \E key \in DOMAIN parse.data : parse.data[key] = 2
    /\ Len(parse.observation_ids) = 2

-----------------------------------------------------------------------------
(* The outputs of the open-reference pipeline *)

\* de novo is about to be skipped: the closed-reference step has ended and
\* left no unmatched sequence
DeNovoToBeSkipped ==
    /\ op = "open_reference" /\ open.stage = "CLOSED_REF_ATTEMPTED"
    /\ Len(open.unmatched_seqs) = 0

\* C27: whenever de novo is skipped the closed-reference step has
\* succeeded, so that the pipeline returns the table and the sequences that
\* step produced and never fails on an unbound rep_seqs; this is so too
\* when closed-reference found no matches for an empty sequence set.
C27_SkippedDeNovoHasClosedRefOutputs ==
    /\ DeNovoToBeSkipped => ~open.skipped_closed_ref
    /\ error.kind # "UnboundLocalError"
    /\ (op = "open_reference" /\ open.stage = "DONE" /\ ~DeNovoCalled) =>
          /\ ~open.skipped_closed_ref
          /\ open.outputs[1] = open.closed_ref_table
          /\ open.outputs[2] = open.rep_seqs

\* the total of sample s over the rows of t, a sample that t does not have
\* counting as zero
SampleTotal(t, s) == SumOver([r \in DOMAIN t |-> CellOrZero(t, r, s)], DOMAIN t)

\* C28: a successful run of the open-reference pipeline conserves
\* abundance: in each of its three branches the total of every sample over
\* the rows of the table returned is its total over the rows of the input
\* table (the tool, as modelled, reports every query once: as a hit or in
\* its unmatched output).
C28_AbundanceConserved ==
    OpenDone =>
        \A s \in Samples :
            SampleTotal(open.outputs[1], s) = SampleTotal(open.table, s)

\* both stages ran, two features were collapsed into one reference, and
\* the merged table was returned
C28_Witness ==
    /\ OpenDone /\ BothStagesRan
    /\ Cardinality(DOMAIN open.table) = 3
    /\ Cardinality(DOMAIN open.outputs[1]) = 2
    /\ Cardinality(DOMAIN open.closed_ref_table) = 1

\* the FASTA file has no id twice
IdsDistinct(fasta) ==
    \A i, j \in DOMAIN fasta : fasta[i].id = fasta[j].id => i = j

\* C29: in every successful result of closed-reference and of the
\* open-reference pipeline the row ids of the clustered table are the ids
\* of the clustered sequences, each id having one sequence.
C29_RowsAreRepresentativeIds ==
    /\ (op = "closed_reference" /\ pc = "done") =>
          /\ DOMAIN out_table = FastaIds(out_seqs)
          /\ IdsDistinct(out_seqs)
    /\ OpenDone =>
          /\ DOMAIN open.outputs[1] = FastaIds(open.outputs[2])
          /\ IdsDistinct(open.outputs[2])

\* a merged result with a row from each stage
C29_Witness ==
    /\ OpenDone /\ BothStagesRan
    /\ DOMAIN open.closed_ref_table # {} /\ DOMAIN open.de_novo_table # {}
    /\ Len(open.outputs[2]) >= 2

-----------------------------------------------------------------------------
(* _stats.py: _build_cmds, _get_stats_easy, _fastq_stats *)

\* the largest integer thread setting, the largest cpu_count(), the largest
\* number of samples in the manifest and of lines in one file
MaxThreads == 9
MaxCpus == 9
MaxSamples == 2
MaxFileLines == 1

\* below this many threads each command runs on its own, one after another
SequentialBelow == 4

\* from this many threads the forward and the reverse job get a worker each
ParallelFrom == 8

\* the value of the reverse column of a single-end manifest
None == <<"None", 0>>

\* the path of the file of sample k in one direction
Path(direction, k) == <<direction, k>>

\* the thread settings the plugin accepts: an integer >= 1 or 'auto'
ThreadSettings ==
    {[kind |-> "int", n |-> k] : k \in 1..MaxThreads}
        \cup {[kind |-> "auto", n |-> 0]}

\* sequences.manifest: one forward path per sample, and the reverse path or
\* None
Manifest(n, paired) ==
    [forward |-> [k \in 1..n |-> Path("forward", k)],
     reverse |-> [k \in 1..n |-> IF paired THEN Path("reverse", k) ELSE None]]

\* the lines fileinput reads from one file holding n lines
FileLines(path, n) == [k \in 1..n |-> <<path, k>>]

\* fileinput.input(files=filelist): the lines of the files, one file after
\* the other; disk gives the number of lines of each file
RECURSIVE InputLinesFrom(_, _, _)
InputLinesFrom(filelist, i, disk) ==
    IF i > Len(filelist) THEN <<>>
    ELSE FileLines(filelist[i], disk[filelist[i]])
             \o InputLinesFrom(filelist, i + 1, disk)

InputLines(filelist, disk) == InputLinesFrom(filelist, 1, disk)

\* the options of the three commands _build_cmds makes, in its order
StatisticsCommands == <<"fastq_stats", "fastq_eestats", "fastq_eestats2">>

\* _build_cmds(output_dir, filelist, direction): one job, the filelist with
\* the three commands, each writing a file named after the direction
BuildCmds(filelist, direction) ==
    << [filelist |-> filelist,
        cmds |-> [c \in DOMAIN StatisticsCommands |->
                     [option |-> StatisticsCommands[c],
                      direction |-> direction]]] >>

\* paired = manifest['reverse'][0] is not None
IsPaired(manifest) == manifest.reverse[1] # None

\* threads after the comparison with cpu_count(): 'auto' raises TypeError
\* in the comparison and becomes cpus
EffectiveThreads(cpus, threads) ==
    IF threads.kind = "auto" THEN cpus
    ELSE IF cpus < threads.n THEN cpus ELSE threads.n

\* a pool that always has two workers (not the code)
JobsAlwaysTwo(paired, threads) == 2

\* jobs = 1; if paired and threads >= 8: jobs = 2
Jobs(paired, threads) ==
    IF paired /\ threads >= ParallelFrom THEN 2 ELSE 1

\* the sequential path: for every job, for every command of it, a call of
\* _get_stats_easy with the job's filelist and that command alone
SingleCommandCalls(jobcmds) ==
    LET n == Len(StatisticsCommands)
    IN [k \in 1..(n * Len(jobcmds)) |->
           [filelist |-> jobcmds[((k - 1) \div n) + 1].filelist,
            cmds |->
                << jobcmds[((k - 1) \div n) + 1].cmds[((k - 1) % n) + 1] >>]]

\* a call of _get_stats_easy that has not begun
NewCall(cmds_packed) ==
    [filelist |-> cmds_packed.filelist, cmds |-> cmds_packed.cmds,
     pc |-> "queued", processes |-> <<>>, line |-> 1, p |-> 1]

\* subprocess.Popen(cmd, stdin=subprocess.PIPE)
Popen(cmd) ==
    [cmd |-> cmd, received |-> <<>>, stdin |-> "open", waited |-> FALSE]

BrokenPipeError == Err("BrokenPipeError", "", {})

StatsOthersUnchanged ==
    UNCHANGED <<op, table0, table, sequences, refs, sized, uc, notmatched,
                unmatched_seqs, conn, out_table, out_seqs, cmds, assign,
                open, temps, chimera, parse>>

\* the calls of _get_stats_easy that have begun and not returned or raised
ActiveCalls ==
    {c \in DOMAIN stats.calls :
        stats.calls[c].pc \in {"spawn", "stream", "close", "wait"}}

InitStats ==
    /\ op = "fastq_stats"
    /\ pc = "start"
    /\ \E n \in 1..MaxSamples, paired \in BOOLEAN,
          threads \in ThreadSettings, cpus \in 1..MaxCpus :
          \E records \in [1..n -> 0..MaxFileLines] :
             stats = [stage |-> "start",
                      manifest |-> Manifest(n, paired),
                      disk |-> [path \in {Path(d, k) :
                                     d \in {"forward", "reverse"},
                                     k \in 1..n} |-> records[path[2]]],
                      threads |-> threads,
                      cpus |-> cpus]
    /\ table0 = EmptyTable /\ table = EmptyTable /\ out_table = EmptyTable
    /\ conn = EmptyConn
    /\ error = NoError
    /\ sequences = <<>> /\ refs = <<>> /\ sized = <<>> /\ uc = <<>>
    /\ notmatched = <<>> /\ unmatched_seqs = <<>> /\ out_seqs = <<>>
    /\ cmds = <<>> /\ assign = <<>> /\ open = NoFrame
    /\ temps = {} /\ chimera = NoChimera
    /\ parse = NoParse

\* _fastq_stats up to the first call of _get_stats_easy: the jobs, the
\* number of threads, the path taken and the size of the pool
FastqStatsBegin ==
    /\ op = "fastq_stats" /\ stats.stage = "start"
    /\ LET manifest == stats.manifest
           paired == IsPaired(manifest)
           jobcmds == BuildCmds(manifest.forward, "forward")
                        \o (IF paired
                            THEN BuildCmds(manifest.reverse, "reverse")
                            ELSE <<>>)
           threads == EffectiveThreads(stats.cpus, stats.threads)
           sequential == threads < SequentialBelow
           packed == IF sequential THEN SingleCommandCalls(jobcmds)
                     ELSE jobcmds
       IN stats' = [stage |-> "run",
                    manifest |-> manifest,
                    disk |-> stats.disk,
                    paired |-> paired,
                    threads |-> threads,
                    path |-> IF sequential THEN "sequential" ELSE "pool",
                    jobs |-> IF sequential THEN 1
                             ELSE Jobs(paired, threads),
                    calls |-> [c \in DOMAIN packed |-> NewCall(packed[c])],
                    procs |-> <<>>]
    /\ pc' = "run"
    /\ UNCHANGED error
    /\ StatsOthersUnchanged

\* the next call of _get_stats_easy begins: in the main process on the
\* sequential path, in a free worker of the pool otherwise; calls begin in
\* the order of the list
StartCall(c) ==
    /\ op = "fastq_stats" /\ stats.stage = "run"
    /\ c \in DOMAIN stats.calls
    /\ stats.calls[c].pc = "queued"
    /\ \A b \in 1..(c - 1) : stats.calls[b].pc # "queued"
    /\ Cardinality(ActiveCalls) < stats.jobs
    /\ stats' = [stats EXCEPT !.calls[c].pc = "spawn"]
    /\ UNCHANGED <<pc, error>>
    /\ StatsOthersUnchanged

\* for cmd in cmds: processes.append(subprocess.Popen(cmd, stdin=PIPE))
Spawn(c) ==
    /\ op = "fastq_stats" /\ stats.stage = "run"
    /\ c \in DOMAIN stats.calls
    /\ stats.calls[c].pc = "spawn"
    /\ LET call == stats.calls[c]
           k == Len(call.processes) + 1
           id == Len(stats.procs) + 1
       IN stats' = [stats EXCEPT
                       !.procs = Append(@, Popen(call.cmds[k])),
                       !.calls[c].processes = Append(@, id),
                       !.calls[c].pc = IF k = Len(call.cmds)
                                       THEN "stream" ELSE "spawn"]
    /\ UNCHANGED <<pc, error>>
    /\ StatsOthersUnchanged

\* for line in fh: for p in processes: p.stdin.write(line), one write
Write(c) ==
    /\ op = "fastq_stats" /\ stats.stage = "run"
    /\ c \in DOMAIN stats.calls
    /\ stats.calls[c].pc = "stream"
    /\ LET call == stats.calls[c]
           lines == InputLines(call.filelist, stats.disk)
           last == call.p = Len(call.processes)
       IN /\ call.line <= Len(lines)
          /\ stats' = [stats EXCEPT
                          !.procs[call.processes[call.p]].received =
                              Append(@, lines[call.line]),
                          !.calls[c].p = IF last THEN 1 ELSE call.p + 1,
                          !.calls[c].line = IF last THEN call.line + 1
                                            ELSE call.line]
    /\ UNCHANGED <<pc, error>>
    /\ StatsOthersUnchanged

\* the files are exhausted: the loop over the lines ends
EndOfInput(c) ==
    /\ op = "fastq_stats" /\ stats.stage = "run"
    /\ c \in DOMAIN stats.calls
    /\ stats.calls[c].pc = "stream"
    /\ stats.calls[c].line >
           Len(InputLines(stats.calls[c].filelist, stats.disk))
    /\ stats' = [stats EXCEPT !.calls[c].pc = "close", !.calls[c].p = 1]
    /\ UNCHANGED <<pc, error>>
    /\ StatsOthersUnchanged

\* for p in processes: p.stdin.close(), one process
Close(c) ==
    /\ op = "fastq_stats" /\ stats.stage = "run"
    /\ c \in DOMAIN stats.calls
    /\ stats.calls[c].pc = "close"
    /\ stats' = [stats EXCEPT
                    !.procs[stats.calls[c].processes[stats.calls[c].p]].stdin =
                        "closed",
                    !.calls[c].pc = "wait"]
    /\ UNCHANGED <<pc, error>>
    /\ StatsOthersUnchanged

\* p.wait() for the process whose input was closed, and on to the next
Wait(c) ==
    /\ op = "fastq_stats" /\ stats.stage = "run"
    /\ c \in DOMAIN stats.calls
    /\ stats.calls[c].pc = "wait"
    /\ LET call == stats.calls[c]
           last == call.p = Len(call.processes)
       IN stats' = [stats EXCEPT
                       !.procs[call.processes[call.p]].waited = TRUE,
                       !.calls[c].p = IF last THEN call.p ELSE call.p + 1,
                       !.calls[c].pc = IF last THEN "done" ELSE "close"]
    /\ UNCHANGED <<pc, error>>
    /\ StatsOthersUnchanged

\* where the exception leaves the call: on the sequential path it leaves
\* _fastq_stats too
Raised(after, c) ==
    IF after.path = "sequential"
    THEN /\ stats' = [after EXCEPT !.calls[c].pc = "raised",
                                   !.stage = "raised"]
         /\ error' = BrokenPipeError
         /\ pc' = "raised"
    ELSE /\ stats' = [after EXCEPT !.calls[c].pc = "raised"]
         /\ UNCHANGED <<pc, error>>

\* the process written to has exited: p.stdin.write(line) raises
\* BrokenPipeError, which leaves _get_stats_easy with the pipe open
BrokenPipeOnWrite(c) ==
    /\ op = "fastq_stats" /\ stats.stage = "run"
    /\ c \in DOMAIN stats.calls
    /\ stats.calls[c].pc = "stream"
    /\ stats.calls[c].line
           <= Len(InputLines(stats.calls[c].filelist, stats.disk))
    /\ Raised(stats, c)
    /\ StatsOthersUnchanged

\* the process closed has exited with lines in the buffer: the flush of
\* p.stdin.close() raises BrokenPipeError, and the pipe is closed all the
\* same; p.wait() is not reached
BrokenPipeOnClose(c) ==
    /\ op = "fastq_stats" /\ stats.stage = "run"
    /\ c \in DOMAIN stats.calls
    /\ stats.calls[c].pc = "close"
    /\ Len(stats.procs[stats.calls[c].processes[stats.calls[c].p]].received)
           > 0
    /\ Raised([stats EXCEPT
                  !.procs[stats.calls[c].processes[stats.calls[c].p]].stdin =
                      "closed"], c)
    /\ StatsOthersUnchanged

\* pool.map returns once every job has ended and raises the exception of a
\* job that raised
PoolRaise ==
    /\ op = "fastq_stats" /\ stats.stage = "run"
    /\ stats.path = "pool"
    /\ \A c \in DOMAIN stats.calls : stats.calls[c].pc \in {"done", "raised"}
    /\ \E c \in DOMAIN stats.calls : stats.calls[c].pc = "raised"
    /\ stats' = [stats EXCEPT !.stage = "raised"]
    /\ error' = BrokenPipeError
    /\ pc' = "raised"
    /\ StatsOthersUnchanged

\* html = _get_html(output_dir, datafiles): every call has returned
GetHtml ==
    /\ op = "fastq_stats" /\ stats.stage = "run"
    /\ \A c \in DOMAIN stats.calls : stats.calls[c].pc = "done"
    /\ stats' = [stats EXCEPT !.stage = "render"]
    /\ pc' = "render"
    /\ UNCHANGED error
    /\ StatsOthersUnchanged

NextStats ==
    \/ FastqStatsBegin
    \/ \E c \in 1..(2 * Len(StatisticsCommands)) : StartCall(c)
    \/ \E c \in 1..(2 * Len(StatisticsCommands)) : Spawn(c)
    \/ \E c \in 1..(2 * Len(StatisticsCommands)) : Write(c)
    \/ \E c \in 1..(2 * Len(StatisticsCommands)) : EndOfInput(c)
    \/ \E c \in 1..(2 * Len(StatisticsCommands)) : Close(c)
    \/ \E c \in 1..(2 * Len(StatisticsCommands)) : Wait(c)
    \/ \E c \in 1..(2 * Len(StatisticsCommands)) : BrokenPipeOnWrite(c)
    \/ \E c \in 1..(2 * Len(StatisticsCommands)) : BrokenPipeOnClose(c)
    \/ PoolRaise
    \/ GetHtml

SpecStats == InitStats /\ [][NextStats]_vars

\* _fastq_stats has passed its first lines
StatsBegun == op = "fastq_stats" /\ stats.stage \in {"run", "render", "raised"}

\* report rendering has started
Rendering == op = "fastq_stats" /\ stats.stage = "render"

\* the read directions of the input, as the manifest gives them
Directions ==
    IF \E k \in DOMAIN stats.manifest.reverse :
           stats.manifest.reverse[k] # None
    THEN {"forward", "reverse"} ELSE {"forward"}

\* the processes spawned for one command in one direction
ProcessesOf(option, direction) ==
    {i \in DOMAIN stats.procs :
        stats.procs[i].cmd = [option |-> option, direction |-> direction]}

\* every line of the direction's files, in order
LinesOfDirection(direction) ==
    InputLines(stats.manifest[direction], stats.disk)

\* C30: no statistics command is spawned twice for a direction; when
\* report rendering starts each of the three commands has run once per
\* read direction, has been given every line of the direction's files, has
\* had its input closed and has been waited for, and nothing else has been
\* spawned; below four threads a call runs one command and calls do not
\* overlap, from four threads on a call runs the three commands of a
\* direction, and two calls overlap only with paired input and eight
\* threads or more.
C30_EachStatisticRunsOncePerDirection ==
    /\ StatsBegun =>
          /\ \A i, j \in DOMAIN stats.procs :
                 stats.procs[i].cmd = stats.procs[j].cmd => i = j
          /\ stats.threads < SequentialBelow =>
                 /\ \A c \in DOMAIN stats.calls :
                        Len(stats.calls[c].cmds) = 1
                 /\ Cardinality(ActiveCalls) <= 1
          /\ stats.threads >= SequentialBelow =>
                 \A c \in DOMAIN stats.calls :
                     Len(stats.calls[c].cmds) = Len(StatisticsCommands)
          /\ Cardinality(ActiveCalls) >= 2 =>
                 /\ Directions = {"forward", "reverse"}
                 /\ stats.threads >= ParallelFrom
    /\ Rendering =>
          /\ \A d \in Directions :
                \A o \in DOMAIN StatisticsCommands :
                    /\ Cardinality(ProcessesOf(StatisticsCommands[o], d)) = 1
                    /\ \A i \in ProcessesOf(StatisticsCommands[o], d) :
                           /\ stats.procs[i].received = LinesOfDirection(d)
                           /\ stats.procs[i].stdin = "closed"
                           /\ stats.procs[i].waited
          /\ Len(stats.procs) =
                 Len(StatisticsCommands) * Cardinality(Directions)
          /\ \A i \in DOMAIN stats.procs :
                 stats.procs[i].stdin = "closed" /\ stats.procs[i].waited

\* rendering starts after the forward and the reverse job overlapped in
\* the pool, a reverse process having been spawned before the last forward
\* one, with lines to stream
C30_Witness ==
    /\ Rendering
    /\ stats.path = "pool" /\ stats.jobs = 2
    /\ \E i, j \in DOMAIN stats.procs :
           /\ i < j
           /\ stats.procs[i].cmd.direction = "reverse"
           /\ stats.procs[j].cmd.direction = "forward"
    /\ Len(LinesOfDirection("reverse")) > 0

=============================================================================
